---- MODULE Spec2Model ----
(***************************************************************************)
(* Content-addressable collector cache (collector-cache-extension).        *)
(*                                                                         *)
(* The module models the hashing utilities, the dependency resolver, the   *)
(* pointer store, the output existence check and the two event handlers    *)
(* of the extension (contentAggregated = decision phase, beforePublish =   *)
(* population phase) over an abstract file system.                         *)
(*                                                                         *)
(* Abstractions.  A file's bytes are a content id in 1..MaxContent and 0   *)
(* stands for "no such file".  SHA-256 is modelled as an injective         *)
(* function from symbol strings to naturals (Sha256 below), a hex digest   *)
(* is one symbol of the string that computeContentHash joins.  A directory *)
(* tree is a function from relative paths (sequences of names) to nodes.   *)
(***************************************************************************)
EXTENDS Integers, Sequences, FiniteSets, TLC

VARIABLES
  h,             \* state of the utility under evaluation (hash / resolver runs)
  cfg,           \* the content aggregate: origins with their collectorCache config
  force,         \* process.env.FORCE_COLLECTOR === 'true'
  dryRun,        \* process.env.DRY_RUN === 'true'
  src,           \* worktree id -> source path -> content id (0 = missing)
  wt,            \* worktree id -> directory tree of the worktree (build outputs)
  cmdFails,      \* does the source-discovery command exit non-zero
  ptr,           \* pointer files: <<root, component, key, fingerprint>> -> file
  out,           \* stored outputs: <<root, fingerprint>> -> tree under outputs/<fp>
  clock,         \* wall clock read by new Date()
  pc,            \* position of the host process
  oi, ei,        \* contentAggregated: origin index, entry index
  bi,            \* collector run: index of the item to run next
  pi,            \* beforePublish: index into cacheEntries
  collector,     \* origin index -> origin.descriptor.ext.collector
  cacheEntries,  \* entries tracked for the cache update after the build
  log,           \* logger output of the current process
  runs,          \* number of host processes started so far
  edits          \* number of changes made to sources / the store from outside

vars == <<h, cfg, force, dryRun, src, wt, cmdFails, ptr, out, clock, pc, oi, ei,
          bi, pi, collector, cacheEntries, log, runs, edits>>

mainVars == <<cfg, force, dryRun, src, wt, cmdFails, ptr, out, clock, pc, oi, ei,
              bi, pi, collector, cacheEntries, log, runs, edits>>

(***************************************************************************)
(* Bounds                                                                  *)
(***************************************************************************)
MaxContent == 2      \* distinct file contents
MaxListLen == 3      \* longest source list handed to computeHashes
MaxDepLen == 2       \* longest dependsOn list of a registry entry
MaxRuns == 2         \* host processes (decision + build + population) per behaviour
MaxEdits == 1        \* outside changes to sources / store per behaviour
MaxLines == 1        \* lines a source command prints
MaxDepth == 2           \* levels of entries below a directory that is checked or restored
MaxPatterns == 2        \* glob patterns of one restoreToWorktree list
MaxCommands == 2     \* source commands handed to resolveSources

(***************************************************************************)
(* Generic helpers                                                         *)
(***************************************************************************)
Range(s) == {s[i] : i \in 1..Len(s)}

Front(s) == SubSeq(s, 1, Len(s) - 1)

Last(s) == s[Len(s)]

SeqsUpTo(S, n) == UNION {[1..k -> S] : k \in 0..n}

IsPrefix(p, q) == Len(p) <= Len(q) /\ SubSeq(q, 1, Len(p)) = p

\* JS null
NULL == [null |-> TRUE]

(***************************************************************************)
(* lib/utils/hash.js                                                       *)
(***************************************************************************)
\* The source paths of the model, in UTF-16 code unit order, which is the
\* order Array.prototype.sort() without comparator puts strings in.
SourcePaths == <<"lib/helper.c", "src/gen.c", "src/main.c">>

SourceNames == Range(SourcePaths)

Rank(p) == CHOOSE i \in 1..Len(SourcePaths) : SourcePaths[i] = p

\* crypto.createHash('sha256').update(s).digest('hex'): injective on strings of
\* symbols 1..MaxContent (base MaxContent+1 positional value, no zero digit).
RECURSIVE Sha256(_)
Sha256(s) == IF s = <<>> THEN 0 ELSE Sha256(Front(s)) * (MaxContent + 1) + Last(s)

\* computeHash(content)
computeHash(content) == Sha256(<<content>>)

\* A JS object with string keys: Object.keys() order is insertion order.
EmptyObject == [keys |-> <<>>, val |-> [k \in {} |-> 0]]

ObjectSet(o, k, v) ==
  IF k \in Range(o.keys)
    THEN [o EXCEPT !.val = [o.val EXCEPT ![k] = v]]
    ELSE [keys |-> Append(o.keys, k),
          val |-> [x \in Range(o.keys) \cup {k} |-> IF x = k THEN v ELSE o.val[x]]]

\* fs.existsSync(path.join(worktree, source)) for a worktree's source files
sourceExists(files, source) == files[source] # 0

\* Variant of computeHashesFrom: a missing source is skipped instead of ending the loop
RECURSIVE computeHashesSkipMissing(_, _, _)
computeHashesSkipMissing(files, sources, hashes) ==
  IF sources = <<>> THEN hashes
  ELSE IF ~sourceExists(files, Head(sources))
    THEN computeHashesSkipMissing(files, Tail(sources), hashes)
  ELSE computeHashesSkipMissing(files, Tail(sources),
                                ObjectSet(hashes, Head(sources), computeHash(files[Head(sources)])))

\* computeHashes(worktree, sources): null as soon as one source is missing
RECURSIVE computeHashesFrom(_, _, _)
computeHashesFrom(files, sources, hashes) ==
  IF sources = <<>> THEN hashes
  ELSE IF ~sourceExists(files, Head(sources)) THEN NULL
  ELSE computeHashesFrom(files, Tail(sources),
                         ObjectSet(hashes, Head(sources), computeHash(files[Head(sources)])))

computeHashes(files, sources) == computeHashesFrom(files, sources, EmptyObject)

\* what a worktree holds at a source path that is a directory, not a file
Directory == -1

\* fs.readFileSync(filePath) inside computeHashes throws (EISDIR) when the loop
\* reaches a source that is a directory before it reaches a missing one
RECURSIVE readFileSyncThrows(_, _)
readFileSyncThrows(files, sources) ==
  IF sources = <<>> THEN FALSE
  ELSE IF ~sourceExists(files, Head(sources)) THEN FALSE
  ELSE IF files[Head(sources)] = Directory THEN TRUE
  ELSE readFileSyncThrows(files, Tail(sources))

\* Array.prototype.sort() on an array of distinct path strings
RECURSIVE SortInsert(_, _)
SortInsert(sorted, k) ==
  IF sorted = <<>> THEN <<k>>
  ELSE IF Rank(k) < Rank(Head(sorted)) THEN <<k>> \o sorted
  ELSE <<Head(sorted)>> \o SortInsert(Tail(sorted), k)

\* Variant of SortedKeys: the keys are left in insertion order
UnsortedKeys(keys) == keys

RECURSIVE SortedKeys(_)
SortedKeys(keys) ==
  IF keys = <<>> THEN <<>> ELSE SortInsert(SortedKeys(Front(keys)), Last(keys))

\* a fingerprint that takes in the paths next to the digests
computeContentHashWithPaths(sourceHashes) ==
  LET sortedKeys == SortedKeys(sourceHashes.keys)
      combined == [i \in 1..(2 * Len(sortedKeys)) |->
                     IF i % 2 = 1 THEN Rank(sortedKeys[(i + 1) \div 2])
                     ELSE sourceHashes.val[sortedKeys[i \div 2]]]
  IN Sha256(combined)

\* computeContentHash(sourceHashes)
computeContentHash(sourceHashes) ==
  LET sortedKeys == SortedKeys(sourceHashes.keys)
      combined == [i \in 1..Len(sortedKeys) |-> sourceHashes.val[sortedKeys[i]]]
  IN Sha256(combined)

(***************************************************************************)
(* lib/utils/sources.js: dependency resolution                             *)
(***************************************************************************)
\* logger.warn(`Circular dependency detected: ${key} -> ${depKey}`)
CircularWarning(key, depKey) == [level |-> "warn", msg |-> "circular", a |-> key, b |-> depKey]

\* logger.warn(`Dependency not found: ${depKey} (required by ${key})`)
NotFoundWarning(key, depKey) == [level |-> "warn", msg |-> "notfound", a |-> key, b |-> depKey]

\* a visited set shared by all branches: a key counts as visited once any branch
\* of the running resolution has collected its sources
IsCircularSharedVisited(visited, depKey) ==
  \/ depKey \in visited
  \/ /\ depKey \in DOMAIN h.entriesMap
     /\ \E i \in 1..Len(h.stack) : \E j \in 1..Len(h.stack[i].allSources) :
          h.stack[i].allSources[j] = h.entriesMap[depKey].sources[1]

\* visited.has(depKey)
IsCircular(visited, depKey) == depKey \in visited

\* Variant of NewVisited: the set is not copied from the path, only the new key is kept
NewVisitedForgetsPath(visited, depKey) == {depKey}

\* const newVisited = new Set(visited); newVisited.add(depKey)
NewVisited(visited, depKey) == visited \cup {depKey}

NoDepSources == [sources |-> <<>>, sourceCommands |-> <<>>, warnings |-> <<>>]

\* resolveDependencySources(entriesMap, dependsOn, visited, logger, componentName, key):
\* the two accumulators and, in order, the warnings it logs.
RECURSIVE resolveDependencySources(_, _, _, _)
resolveDependencySources(entriesMap, dependsOn, visited, key) ==
  IF dependsOn = <<>> THEN NoDepSources
  ELSE
    LET depKey == Head(dependsOn)
        first ==
          IF IsCircular(visited, depKey)
            THEN [NoDepSources EXCEPT !.warnings = <<CircularWarning(key, depKey)>>]
          ELSE IF depKey \notin DOMAIN entriesMap
            THEN [NoDepSources EXCEPT !.warnings = <<NotFoundWarning(key, depKey)>>]
          ELSE
            LET depEntry == entriesMap[depKey]
                recursive ==
                  IF Len(depEntry.dependsOn) > 0
                    THEN resolveDependencySources(entriesMap, depEntry.dependsOn,
                                                  NewVisited(visited, depKey), depKey)
                    ELSE NoDepSources
            IN [sources |-> depEntry.sources \o recursive.sources,
                sourceCommands |-> depEntry.sourceCommands \o recursive.sourceCommands,
                warnings |-> recursive.warnings]
        rest == resolveDependencySources(entriesMap, Tail(dependsOn), visited, key)
    IN [sources |-> first.sources \o rest.sources,
        sourceCommands |-> first.sourceCommands \o rest.sourceCommands,
        warnings |-> first.warnings \o rest.warnings]

(***************************************************************************)
(* File system trees.  A tree is a function from the paths that exist      *)
(* (sequences of names, relative to the tree's root directory) to nodes;   *)
(* the root directory itself is the path <<>>.                             *)
(***************************************************************************)
EmptyTree == [p \in {} |-> [type |-> "dir", content |-> 0]]

DirNode == [type |-> "dir", content |-> 0]

FileNode(c) == [type |-> "file", content |-> c]

LinkNode == [type |-> "link", content |-> 0]

\* a directory the process has no permission to list
LockedDirNode == [type |-> "locked", content |-> 0]

Prefixes(p) == {SubSeq(p, 1, k) : k \in 0..Len(p)}

\* fs.existsSync(path)
existsSync(t, p) == p \in DOMAIN t

\* fs.statSync(path).isDirectory()
isDirectory(t, p) == p \in DOMAIN t /\ t[p].type \in {"dir", "locked"}

\* Dirent.isFile(): a symbolic link is neither a file nor a directory
isFile(t, p) == p \in DOMAIN t /\ t[p].type = "file"

\* fs.readdirSync(dir, ...) throws (EACCES)
readdirSyncThrows(t, dir) == t[dir].type = "locked"

\* fs.readdirSync(dir): the paths of the entries of the directory
readdirSync(t, dir) == {p \in DOMAIN t : Len(p) = Len(dir) + 1 /\ IsPrefix(dir, p)}

\* fs.rmSync(path, { recursive: true, force: true })
rmSync(t, p) == [q \in {x \in DOMAIN t : ~IsPrefix(p, x)} |-> t[q]]

\* fs.mkdirSync(path, { recursive: true })
mkdirSync(t, p) == [q \in DOMAIN t \cup Prefixes(p) |-> IF q \in DOMAIN t THEN t[q] ELSE DirNode]

\* fs.copyFileSync(sourcePath, destPath) / fs.writeFileSync(path, data)
writeNode(t, p, node) == [q \in DOMAIN t \cup {p} |-> IF q = p THEN node ELSE t[q]]

\* a check that takes any directory entry for a file
checkDirectoryHasEntries(t, dirPath) == readdirSync(t, dirPath) # {}

\* a check that looks at the entries of the directory itself only
checkDirectoryHasFilesShallow(t, dirPath) == \E entry \in readdirSync(t, dirPath) : isFile(t, entry)

\* checkDirectoryHasFiles(dirPath)
RECURSIVE checkDirectoryHasFiles(_, _)
checkDirectoryHasFiles(t, dirPath) ==
  \E entry \in readdirSync(t, dirPath) :
    \/ isFile(t, entry)
    \/ isDirectory(t, entry) /\ checkDirectoryHasFiles(t, entry)

\* checkOutputsExist(outputPath, logger); the catch block returns false.  The
\* trees of this model have an unreadable directory at the output path only, so
\* the listing of the output path is the one call that can throw.
checkOutputsExist(t, outputPath) ==
  IF ~existsSync(t, outputPath) THEN FALSE
  ELSE IF ~isDirectory(t, outputPath) THEN FALSE
  ELSE IF readdirSyncThrows(t, outputPath) THEN FALSE
  ELSE checkDirectoryHasFiles(t, outputPath)

\* the loop of copyDirectory over the entries that are still to copy
RECURSIVE copyDirectory(_, _, _, _)
RECURSIVE copyEntries(_, _, _, _, _)
copyEntries(st, source, dt, destination, entries) ==
  IF entries = {} THEN dt
  ELSE
    LET sourcePath == CHOOSE e \in entries : TRUE
        destPath == Append(destination, Last(sourcePath))
        copied ==
          IF isDirectory(st, sourcePath) THEN copyDirectory(st, sourcePath, dt, destPath)
          ELSE IF isFile(st, sourcePath) THEN writeNode(dt, destPath, st[sourcePath])
          ELSE dt
    IN copyEntries(st, source, copied, destination, entries \ {sourcePath})

\* a copy that creates the destination where it is missing and copies into it,
\* without removing what is there
copyDirectoryMerging(st, source, dt, destination) ==
  copyEntries(st, source, mkdirSync(dt, destination), destination, readdirSync(st, source))

\* copyDirectory(source, destination, logger): destination tree after the copy
copyDirectory(st, source, dt, destination) ==
  LET removed == IF existsSync(dt, destination) THEN rmSync(dt, destination) ELSE dt
      created == mkdirSync(removed, destination)
  IN copyEntries(st, source, created, destination, readdirSync(st, source))

(***************************************************************************)
(* lib/utils/cache.js: restoreFilesToWorktree and findFilesMatchingPattern *)
(***************************************************************************)
\* file names that end in .html
HtmlNames == {"index.html", "page.html"}

\* one segment of a glob pattern against one path segment; "*" also matches
\* names that start with a dot (dot: true)
SegmentMatches(segment, name) ==
  IF segment = "*" THEN TRUE
  ELSE IF segment = "*.html" THEN name \in HtmlNames
  ELSE segment = name

\* globSync's matching of a pattern, split at "/", against a relative path:
\* "**" stands for any number of directories, none included
RECURSIVE GlobMatches(_, _)
GlobMatches(pattern, rel) ==
  IF pattern = <<>> THEN rel = <<>>
  ELSE IF Head(pattern) = "**"
    THEN GlobMatches(Tail(pattern), rel) \/ (rel # <<>> /\ GlobMatches(pattern, Tail(rel)))
  ELSE /\ rel # <<>>
       /\ SegmentMatches(Head(pattern), Head(rel))
       /\ GlobMatches(Tail(pattern), Tail(rel))

\* an array of the elements of a set, in the order the directory walk yields them
RECURSIVE ArrayOf(_)
ArrayOf(set) ==
  IF set = {} THEN <<>>
  ELSE LET x == CHOOSE y \in set : TRUE IN <<x>> \o ArrayOf(set \ {x})

\* findFilesMatchingPattern(dir, pattern): relative paths of the regular files
\* (onlyFiles: true) under dir that match
findFilesMatchingPattern(t, dir, pattern) ==
  IF ~existsSync(t, dir) THEN <<>>
  ELSE ArrayOf({SubSeq(q, Len(dir) + 1, Len(q)) :
                  q \in {x \in DOMAIN t : /\ IsPrefix(dir, x)
                                           /\ x # dir
                                           /\ isFile(t, x)
                                           /\ GlobMatches(pattern, SubSeq(x, Len(dir) + 1, Len(x)))}})

\* for (const pattern of patterns) { filesToCopy.push(...matches) }
RECURSIVE collectMatches(_, _, _)
collectMatches(t, dir, patterns) ==
  IF patterns = <<>> THEN <<>>
  ELSE findFilesMatchingPattern(t, dir, Head(patterns)) \o collectMatches(t, dir, Tail(patterns))

\* a copy loop that leaves a file of the worktree alone when it is already there
RECURSIVE copyMissingToWorktree(_, _, _, _, _, _)
copyMissingToWorktree(st, cacheOutputDir, wtree, worktreeOutputDir, filesToCopy, copies) ==
  IF filesToCopy = <<>> THEN [worktree |-> wtree, copies |-> copies]
  ELSE
    LET relativePath == Head(filesToCopy)
        destPath == worktreeOutputDir \o relativePath
        made == IF ~existsSync(wtree, Front(destPath)) THEN mkdirSync(wtree, Front(destPath)) ELSE wtree
        copied == IF existsSync(made, destPath) THEN made
                  ELSE writeNode(made, destPath, st[cacheOutputDir \o relativePath])
    IN copyMissingToWorktree(st, cacheOutputDir, copied, worktreeOutputDir, Tail(filesToCopy), copies + 1)

\* for (const relativePath of filesToCopy) { mkdirSync(destDir); copyFileSync(sourcePath, destPath) }
RECURSIVE copyFilesToWorktree(_, _, _, _, _, _)
copyFilesToWorktree(st, cacheOutputDir, wtree, worktreeOutputDir, filesToCopy, copies) ==
  IF filesToCopy = <<>> THEN [worktree |-> wtree, copies |-> copies]
  ELSE
    LET relativePath == Head(filesToCopy)
        destPath == worktreeOutputDir \o relativePath
        destDir == Front(destPath)
        made == IF ~existsSync(wtree, destDir) THEN mkdirSync(wtree, destDir) ELSE wtree
        copied == writeNode(made, destPath, st[cacheOutputDir \o relativePath])
    IN copyFilesToWorktree(st, cacheOutputDir, copied, worktreeOutputDir, Tail(filesToCopy), copies + 1)

\* the stored tree without the files of a list
RECURSIVE unlinkAll(_, _, _)
unlinkAll(st, cacheOutputDir, files) ==
  IF files = <<>> THEN st
  ELSE unlinkAll(rmSync(st, cacheOutputDir \o Head(files)), cacheOutputDir, Tail(files))

\* a restore that moves the matched files out of the stored output
restoreFilesMoved(st, cacheOutputDir, wtree, worktreeOutputDir, patterns) ==
  IF ~patterns.isArray \/ Len(patterns.items) = 0
    THEN [count |-> 0, worktree |-> wtree, copies |-> 0, store |-> st]
  ELSE
    LET filesToCopy == collectMatches(st, cacheOutputDir, patterns.items)
        loop == copyFilesToWorktree(st, cacheOutputDir, wtree, worktreeOutputDir, filesToCopy, 0)
    IN [count |-> Len(filesToCopy), worktree |-> loop.worktree, copies |-> loop.copies,
        store |-> unlinkAll(st, cacheOutputDir, filesToCopy)]

\* restoreFilesToWorktree(cacheOutputDir, worktreeOutputDir, patterns, ...): the
\* returned count, the worktree afterwards, the copies made on the way, and the
\* stored tree afterwards (copyFileSync writes destPath only).
\* patterns is [isArray, items]: isArray is FALSE for an absent or non-array value.
restoreFilesToWorktree(st, cacheOutputDir, wtree, worktreeOutputDir, patterns) ==
  IF ~patterns.isArray \/ Len(patterns.items) = 0
    THEN [count |-> 0, worktree |-> wtree, copies |-> 0, store |-> st]
  ELSE
    LET filesToCopy == collectMatches(st, cacheOutputDir, patterns.items)
        loop == copyFilesToWorktree(st, cacheOutputDir, wtree, worktreeOutputDir, filesToCopy, 0)
    IN [count |-> Len(filesToCopy), worktree |-> loop.worktree, copies |-> loop.copies,
        store |-> st]

(***************************************************************************)
(* lib/utils/sources.js: resolveSources                                    *)
(***************************************************************************)
\* sourcesSet.add(x): a Set keeps insertion order and ignores a value it holds
SetAdd(set, x) == IF x \in Range(set) THEN set ELSE Append(set, x)

RECURSIVE SetAddAll(_, _)
SetAddAll(set, xs) == IF xs = <<>> THEN set ELSE SetAddAll(SetAdd(set, Head(xs)), Tail(xs))

\* What `sh -c command` prints in the worktree: one line per path, each line
\* with the text left after trim(); the command of the model lists the
\* generated source and ends with a blank line.
CommandStdout(command) == <<[text |-> "src/gen.c", padded |-> TRUE], [text |-> "", padded |-> TRUE]>>

\* exit code of the command; cwdExists = FALSE is a spawn failure ('error' event)
CommandSucceeds(cwdExists, fails) == cwdExists /\ ~fails

\* how one spawned command ends: 'close' with code 0, 'close' with another code,
\* or 'error'; and what it wrote to stdout before that
CommandOutcome(cwdExists, fails, command) ==
  [status |-> IF ~cwdExists THEN "spawn error"
              ELSE IF CommandSucceeds(cwdExists, fails) THEN "exit 0" ELSE "exit 1",
   stdout |-> IF cwdExists THEN CommandStdout(command) ELSE <<>>]

\* output.trim().split('\n').filter(line => line.trim().length > 0), then p.trim()
ParsePaths(stdout) ==
  LET kept == SelectSeq(stdout, LAMBDA line : line.text # "")
  IN [i \in 1..Len(kept) |-> kept[i].text]

\* logger.warn(`Failed to run sourceCommand ...`)
CommandWarning(key, command) == [level |-> "warn", msg |-> "command-failed", a |-> key, b |-> command]

\* a loop that gives up at the first command that fails
RECURSIVE runSourceCommandsUntilFailure(_, _, _, _)
runSourceCommandsUntilFailure(outcomes, acc, sourceCommands, key) ==
  IF sourceCommands = <<>> THEN acc
  ELSE IF Head(outcomes).status = "exit 0"
    THEN runSourceCommandsUntilFailure(
           Tail(outcomes),
           [acc EXCEPT !.sources = SetAddAll(@, ParsePaths(Head(outcomes).stdout))],
           Tail(sourceCommands), key)
  ELSE [acc EXCEPT !.warnings = Append(@, CommandWarning(key, Head(sourceCommands)))]

\* the loop over sourceCommands; outcomes[i] is how sourceCommands[i] ends
RECURSIVE runSourceCommands(_, _, _, _)
runSourceCommands(outcomes, acc, sourceCommands, key) ==
  IF sourceCommands = <<>> THEN acc
  ELSE
    LET command == Head(sourceCommands)
        outcome == Head(outcomes)
        next ==
          IF outcome.status = "exit 0"
            THEN [acc EXCEPT !.sources = SetAddAll(@, ParsePaths(outcome.stdout))]
            ELSE [acc EXCEPT !.warnings = Append(@, CommandWarning(key, command))]
    IN runSourceCommands(Tail(outcomes), next, Tail(sourceCommands), key)

\* resolveSources(worktree, staticSources, sourceCommands, ...) given how each
\* command ends: the resolved list and the warnings logged
resolveSourcesWith(outcomes, staticSources, sourceCommands, key) ==
  runSourceCommands(outcomes,
                    [sources |-> SetAddAll(<<>>, staticSources), warnings |-> <<>>],
                    sourceCommands, key)

\* resolveSources in a worktree where every command ends the same way
resolveSources(cwdExists, fails, staticSources, sourceCommands, key) ==
  resolveSourcesWith([i \in 1..Len(sourceCommands) |->
                        CommandOutcome(cwdExists, fails, sourceCommands[i])],
                     staticSources, sourceCommands, key)

(***************************************************************************)
(* Configuration: the content aggregate handed to contentAggregated        *)
(***************************************************************************)
DEFAULT_CACHE_DIR == ".cache/antora/collector-cache"

ComponentName == "docs"

ScanOf(dir) == [dir |-> [base |-> "worktree", fp |-> 0, path |-> dir], files |-> "**/*", into |-> "modules/ROOT"]

\* The scan of an entry is absent, one scan object, or an array of scan objects:
\* isArray is Array.isArray(scan), items the scan objects it holds.
ScanAbsent == [isArray |-> FALSE, items |-> <<>>]

ScanObject(scanEntry) == [isArray |-> FALSE, items |-> <<scanEntry>>]

ScanArray(list) == [isArray |-> TRUE, items |-> list]

\* the scan of entry main in a scenario
MainScan(f) ==
  IF ~f.scan THEN ScanAbsent
  ELSE IF f.scanObject THEN ScanObject(ScanOf(<<"build">>))
  ELSE IF f.scanList THEN ScanArray(<<ScanOf(<<"build">>), ScanOf(<<"build", "sub">>)>>)
  ELSE ScanArray(<<ScanOf(<<"build">>)>>)

\* entry "main": the entry the scenarios vary
MainEntry(f) ==
  [run |-> [key |-> "main",
            hasSources |-> TRUE,
            sources |-> <<"src/main.c">>,
            sourceCommands |-> IF f.cmds THEN <<"list-generated">> ELSE <<>>,
            cacheDir |-> <<"build">>,
            command |-> "make main",
            dependsOn |-> IF f.deps THEN <<"lib">> ELSE <<>>,
            restoreToWorktree |-> IF f.restore THEN <<<<"*">>>> ELSE <<>>],
   scan |-> MainScan(f)]

\* entry "lib", a dependency of main, itself depending on "gen"; it is cached
\* itself when it names a cache directory
LibEntry(f) ==
  [run |-> [key |-> "lib",
            hasSources |-> TRUE,
            sources |-> <<"lib/helper.c">>,
            sourceCommands |-> <<>>,
            cacheDir |-> IF f.libCached THEN <<"libout">> ELSE <<>>,
            command |-> "make lib",
            dependsOn |-> <<"gen">>,
            restoreToWorktree |-> <<>>],
   scan |-> ScanAbsent]

\* entry "gen": declares sources but names no cache directory
GenEntry ==
  [run |-> [key |-> "gen",
            hasSources |-> TRUE,
            sources |-> <<"src/gen.c">>,
            sourceCommands |-> <<>>,
            cacheDir |-> <<>>,
            command |-> "make gen",
            dependsOn |-> <<>>,
            restoreToWorktree |-> <<>>],
   scan |-> ScanAbsent]

\* entry "gen" naming a cache directory: a cached entry whose only source is the
\* generated file
GenCachedEntry == [GenEntry EXCEPT !.run.cacheDir = <<"genout">>]

\* an entry without run.key
NoKeyEntry == [GenEntry EXCEPT !.run.key = "", !.run.cacheDir = <<"genout">>]

\* an entry without run.sources (hasSources tells an absent list from an empty one)
NoSourcesEntry ==
  [GenEntry EXCEPT !.run.key = "nosrc", !.run.hasSources = FALSE, !.run.sources = <<>>,
                   !.run.cacheDir = <<"genout">>]

\* an entry whose run.sources is the empty list
EmptySourcesEntry ==
  [GenEntry EXCEPT !.run.key = "empty", !.run.sources = <<>>, !.run.cacheDir = <<"genout">>]

\* entry "twin": the sources of main, and a cache directory inside the one of main
TwinEntry ==
  [run |-> [key |-> "twin",
            hasSources |-> TRUE,
            sources |-> <<"src/main.c">>,
            sourceCommands |-> <<>>,
            cacheDir |-> <<"build", "sub">>,
            command |-> "make twin",
            dependsOn |-> <<>>,
            restoreToWorktree |-> <<>>],
   scan |-> ScanAbsent]

EntriesOf(f) ==
  IF f.deps THEN <<GenEntry, LibEntry(f), MainEntry(f)>>
  ELSE IF f.invalid THEN <<NoKeyEntry, NoSourcesEntry, MainEntry(f)>>
  ELSE IF f.emptySources THEN <<EmptySourcesEntry>>
  ELSE IF f.twin THEN <<MainEntry(f), TwinEntry>>
  ELSE IF f.genCached THEN <<GenCachedEntry, MainEntry(f)>>
  ELSE <<MainEntry(f)>>

\* a collector entry the site declares itself (ext.collector of the descriptor)
HostRun == [command |-> "echo host"]

HostItem == [run |-> HostRun, scan |-> ScanAbsent]

\* one origin (a version of the component) with its worktree
Origin(f, worktree) ==
  [name |-> ComponentName,
   worktree |-> worktree,
   collector |-> IF f.hostCollector THEN <<HostItem>> ELSE <<>>,
   cacheConfig |-> [cacheDir |-> f.customCacheDir, entries |-> EntriesOf(f)]]

Worktrees == {"w1", "w2"}

ConfigOf(f) ==
  IF f.twoOrigins THEN <<Origin(f, "w1"), Origin(f, "w2")>> ELSE <<Origin(f, "w1")>>

\* the scenarios: which features the configuration and the worktrees have
\*   custom-cache      the collector-cache configuration names its cache directory
\*   two-origins       two versions of the component declare the same entries
\*   deps              main depends on lib, which depends on gen
\*   lib-cached        lib names a cache directory of its own
\*   commands          main has a source-discovery command
\*   generated-missing src/gen.c does not exist until a build generates it
\*   worktree-missing  the worktree of the first origin does not exist yet
\*   no-scan           main has no scan
\*   invalid-entries   main comes after an entry without key and one without sources
\*   empty-sources     the only entry has an empty sources list
\*   source-is-directory  src/main.c is a directory in the worktree of the first origin
\*   shared-sources    a second entry hashes the sources of main and caches build/sub
\*   gen-cached        gen names a cache directory and comes before main
\*   restore           main restores the top-level files of its stored output on a HIT
\*   scan-object       the scan of main is a single scan object, not an array
\*   scan-list         the scan of main is an array of two scan objects
\*   host-collector    the descriptor comes with a collector entry of its own
ScenarioFeatures ==
  {{}, {"custom-cache"}, {"two-origins"}, {"deps", "lib-cached"}, {"commands", "scan-list"}, {"no-scan"},
   {"worktree-missing"}, {"commands", "generated-missing"}, {"deps", "generated-missing"},
   {"deps", "worktree-missing"}, {"two-origins", "custom-cache"}, {"invalid-entries"},
   {"empty-sources"}, {"two-origins", "source-is-directory", "scan-object"},
   {"shared-sources"}, {"two-origins", "restore"},
   {"gen-cached", "generated-missing", "host-collector"}}

Scenarios ==
  {[customCacheDir |-> IF "custom-cache" \in fs THEN "custom-cache" ELSE "",
    twoOrigins |-> "two-origins" \in fs,
    deps |-> "deps" \in fs,
    libCached |-> "lib-cached" \in fs,
    cmds |-> "commands" \in fs,
    scan |-> "no-scan" \notin fs,
    scanObject |-> "scan-object" \in fs,
    scanList |-> "scan-list" \in fs,
    genMissing |-> "generated-missing" \in fs,
    worktreeMissing |-> "worktree-missing" \in fs,
    invalid |-> "invalid-entries" \in fs,
    emptySources |-> "empty-sources" \in fs,
    sourceIsDirectory |-> "source-is-directory" \in fs,
    twin |-> "shared-sources" \in fs,
    genCached |-> "gen-cached" \in fs,
    hostCollector |-> "host-collector" \in fs,
    restore |-> "restore" \in fs] : fs \in ScenarioFeatures}

(***************************************************************************)
(* lib/utils/cache.js: the pointer store, and the layout of the cache root *)
(***************************************************************************)
\* contentHash: null
NullHash == -1

\* JSON.stringify(pointer, null, 2) and JSON.parse(content): the text of a pointer
\* file is the record it was written from, or not JSON at all
JSONstringify(value) == [wellFormed |-> TRUE, json |-> value]

JSONparse(content) == content.json

\* path.join(componentHashDir, key, `${contentHash}.json`)
PointerPath(hashDir, key, contentHash) == <<hashDir.root, hashDir.component, key, contentHash>>

\* a loader that takes whatever the file holds for a pointer
loadPointerFileUnchecked(ptrX, pointerPath) ==
  IF pointerPath \notin DOMAIN ptrX THEN NULL ELSE JSONparse(ptrX[pointerPath])

\* loadPointerFile(pointerPath, logger)
loadPointerFile(ptrX, pointerPath) ==
  IF pointerPath \notin DOMAIN ptrX THEN NULL
  ELSE IF ~ptrX[pointerPath].wellFormed THEN NULL
  ELSE JSONparse(ptrX[pointerPath])

\* fs.writeFileSync(pointerPath, JSON.stringify(pointer, null, 2), 'utf8')
savePointerFile(ptrX, pointerPath, pointer) ==
  [q \in DOMAIN ptrX \cup {pointerPath} |->
     IF q = pointerPath THEN JSONstringify(pointer) ELSE ptrX[q]]

\* the directory <root>/outputs/<fingerprint> as a tree
OutTree(outX, root, fp) == IF <<root, fp>> \in DOMAIN outX THEN outX[<<root, fp>>] ELSE EmptyTree

SetOutTree(outX, root, fp, tree) ==
  [q \in DOMAIN outX \cup {<<root, fp>>} |-> IF q = <<root, fp>> THEN tree ELSE outX[q]]

(***************************************************************************)
(* lib/collector-cache-extension.js: contentAggregated, one entry          *)
(***************************************************************************)
\* const cacheDir = cacheConfig.cacheDir || DEFAULT_CACHE_DIR
CacheRoot(cacheConfig) == IF cacheConfig.cacheDir # "" THEN cacheConfig.cacheDir ELSE DEFAULT_CACHE_DIR

\* const componentHashDir = path.join(playbook.dir, cacheDir, 'hashes', componentName)
ComponentHashDir(root, componentName) == [root |-> root, component |-> componentName]

\* entriesMap: the last entry declared with a key is the one the map holds
buildEntriesMap(entries) ==
  LET keys == {entries[i].run.key : i \in 1..Len(entries)} \ {""}
      lastIndex(k) == CHOOSE i \in 1..Len(entries) :
                        /\ entries[i].run.key = k
                        /\ \A j \in (i + 1)..Len(entries) : entries[j].run.key # k
  IN [k \in keys |->
        LET run == entries[lastIndex(k)].run
        IN [key |-> k, sources |-> run.sources, sourceCommands |-> run.sourceCommands,
            dependsOn |-> run.dependsOn]]

\* if (!run || !run.key || !run.sources || !cachedir)
IsInvalidEntry(entry) == entry.run.key = "" \/ ~entry.run.hasSources \/ entry.run.cacheDir = <<>>

\* a source list that leaves the dependencies out
OwnSourcesOnly(run, depSources) == run.sources

\* const allSources = [...sources, ...depSources.sources]
AllSources(run, depSources) == run.sources \o depSources.sources

\* const allSourceCommands = [...(run.sourceCommands || []), ...depSources.sourceCommands]
AllSourceCommands(run, depSources) == run.sourceCommands \o depSources.sourceCommands

\* a decision that does not look at the force signal
shouldSkipIgnoresForce(forceRun, pointer, cachedOutputsExist) ==
  pointer # NULL /\ cachedOutputsExist

\* const shouldSkip = !forceRun && pointer && cachedOutputsExist
shouldSkip(forceRun, pointer, cachedOutputsExist) ==
  ~forceRun /\ pointer # NULL /\ cachedOutputsExist

\* a reason that looks at the pointer before the force signal
MissReasonPointerFirst(forceRun, pointer) ==
  IF pointer = NULL THEN "no cache entry"
  ELSE IF forceRun THEN "FORCE_COLLECTOR=true"
  ELSE "cached outputs missing"

\* a reason that names the force signal only where no pointer was found
MissReasonForceLast(forceRun, pointer) ==
  IF pointer # NULL THEN "cached outputs missing"
  ELSE IF forceRun THEN "FORCE_COLLECTOR=true"
  ELSE "no cache entry"

\* const reason = forceRun ? 'FORCE_COLLECTOR=true' : !pointer ? 'no cache entry' : 'cached outputs missing'
MissReason(forceRun, pointer) ==
  IF forceRun THEN "FORCE_COLLECTOR=true"
  ELSE IF pointer = NULL THEN "no cache entry"
  ELSE "cached outputs missing"

\* the record pushed onto cacheEntries
CacheEntry(componentName, hashDir, key, sources, sourceCommands, worktree, outputDir, sourceHashes, contentHash) ==
  [componentName |-> componentName, componentHashDir |-> hashDir, key |-> key,
   sources |-> sources, sourceCommands |-> sourceCommands, worktree |-> worktree,
   outputDir |-> outputDir, sourceHashes |-> sourceHashes, contentHash |-> contentHash]

\* logger lines that report a decision (the debug lines list the hashed sources)
DecisionLine(level, decision, key, worktree, reason, sourceHashes, contentHash) ==
  [level |-> level, msg |-> decision, a |-> key, b |-> reason, worktree |-> worktree,
   hashed |-> sourceHashes, contentHash |-> contentHash]

\* scan entry pointed at the stored output
RewrittenScan(root, pointer, scanEntry) ==
  [dir |-> [base |-> root, fp |-> pointer.outputDir, path |-> scanEntry.dir.path],
   files |-> scanEntry.files, into |-> scanEntry.into]

\* if (scan): an object and an array, also an empty one, are truthy
HasScan(scan) == scan # ScanAbsent

\* const scanEntries = Array.isArray(scan) ? scan : [scan]
scanEntries(scan) == scan.items

\* scanConfigs: scanEntries.map(...) is an array whatever scan was
scanConfigs(root, pointer, scan) ==
  ScanArray([i \in 1..Len(scanEntries(scan)) |-> RewrittenScan(root, pointer, scanEntries(scan)[i])])

\* a pass-through that hands the collaborator the scan as a list
PassThroughAsList(run, scan) == [run |-> run, scan |-> IF HasScan(scan) THEN ScanArray(scanEntries(scan)) ELSE scan]

\* origin.descriptor.ext.collector.push({ run, scan })
PassThrough(run, scan) == [run |-> run, scan |-> scan]

\* a HIT that schedules the build command of entry main all the same
OriginalCommandRun == [command |-> "make main"]

\* run: { command: 'true' }
NoopRun == [command |-> "true"]

\* Dependency sources, the combined source lists, the resolved sources and their
\* hashes, as the try block computes them once the worktree is there.
ResolveEntry(o, entry, files, fails) ==
  LET run == entry.run
      entriesMap == buildEntriesMap(o.cacheConfig.entries)
      depSources == resolveDependencySources(entriesMap, run.dependsOn, {run.key}, run.key)
      allSources == AllSources(run, depSources)
      allSourceCommands == AllSourceCommands(run, depSources)
      resolved == resolveSources(TRUE, fails, allSources, allSourceCommands, run.key)
  IN [allSources |-> allSources,
      allSourceCommands |-> allSourceCommands,
      resolvedSources |-> resolved.sources,
      sourceHashes |-> computeHashes(files, resolved.sources),
      warnings |-> depSources.warnings \o resolved.warnings]

\* a catch block that logs the error and drops the entry
CaughtAndDropped(key, worktree, warnings, original, tree) ==
  [decision |-> "ERROR", reason |-> "EISDIR", contentHash |-> NullHash,
   logs |-> warnings \o <<DecisionLine("error", "ERROR", key, worktree, "EISDIR", NULL, NullHash)>>,
   push |-> <<>>, track |-> <<>>, worktree |-> tree]

\* a catch block reached after the try block has pushed the original already
CaughtAfterPush(key, worktree, warnings, original, tree) ==
  [decision |-> "ERROR", reason |-> "EISDIR", contentHash |-> NullHash,
   logs |-> warnings \o <<DecisionLine("error", "ERROR", key, worktree, "EISDIR", NULL, NullHash)>>,
   push |-> <<original, original>>, track |-> <<>>, worktree |-> tree]

\* catch (error) { logger.error(`Error processing entry ${componentName}/${key}: ...`);
\*                 origin.descriptor.ext.collector.push({ run, scan }) }
Caught(key, worktree, warnings, original, tree) ==
  [decision |-> "ERROR", reason |-> "EISDIR", contentHash |-> NullHash,
   logs |-> warnings \o <<DecisionLine("error", "ERROR", key, worktree, "EISDIR", NULL, NullHash)>>,
   push |-> <<original>>, track |-> <<>>, worktree |-> tree]

\* an exit that schedules the build but does not record the entry for population
WorktreeMissingNotRecorded(key, worktree, original, untracked, tree) ==
  [decision |-> "MISS", reason |-> "worktree missing", contentHash |-> NullHash,
   logs |-> <<DecisionLine("debug", "MISS", key, worktree, "worktree missing", NULL, NullHash)>>,
   push |-> <<original>>, track |-> <<>>, worktree |-> tree]

\* if (!fs.existsSync(worktree)) { logger.debug(`Worktree does not exist yet ... - cache MISS`);
\*   origin.descriptor.ext.collector.push(entry); cacheEntries.push({...}); continue }
WorktreeMissing(key, worktree, original, untracked, tree) ==
  [decision |-> "MISS", reason |-> "worktree missing", contentHash |-> NullHash,
   logs |-> <<DecisionLine("debug", "MISS", key, worktree, "worktree missing", NULL, NullHash)>>,
   push |-> <<original>>, track |-> <<untracked>>, worktree |-> tree]

\* What the restore of a HIT leaves of the stored outputs: restoreFilesToWorktree
\* is handed path.join(playbook.dir, cacheDir, 'outputs', pointer.outputDir, outputDir)
\* as the place to copy from.
StoreAfterRestore(o, entry, tree, outX, fromOutputDir) ==
  LET root == CacheRoot(o.cacheConfig)
  IN IF Len(entry.run.restoreToWorktree) = 0 THEN outX
     ELSE SetOutTree(outX, root, fromOutputDir,
                     restoreFilesToWorktree(
                       OutTree(outX, root, fromOutputDir), entry.run.cacheDir, tree,
                       entry.run.cacheDir,
                       [isArray |-> TRUE, items |-> entry.run.restoreToWorktree]).store)

\* The body of the per-entry try block for a valid entry: what is logged, what is
\* pushed onto origin.descriptor.ext.collector and onto cacheEntries.
Evaluate(o, entry, forceRun, tree, files, fails, ptrX, outX) ==
  LET run == entry.run
      key == run.key
      outputDir == run.cacheDir
      root == CacheRoot(o.cacheConfig)
      hashDir == ComponentHashDir(root, o.name)
      original == PassThrough(run, entry.scan)
      untracked == CacheEntry(o.name, hashDir, key, run.sources, run.sourceCommands,
                              o.worktree, outputDir, NULL, NullHash)
  IN
  IF ~existsSync(tree, <<>>)
    THEN WorktreeMissing(key, o.worktree, original, untracked, tree)
  ELSE
    LET resolution == ResolveEntry(o, entry, files, fails)
        allSources == resolution.allSources
        allSourceCommands == resolution.allSourceCommands
        sourceHashes == resolution.sourceHashes
        warnings == resolution.warnings
    IN
    IF readFileSyncThrows(files, resolution.resolvedSources)
      THEN Caught(key, o.worktree, warnings, original, tree)
    ELSE IF sourceHashes = NULL
      THEN [decision |-> "MISS", reason |-> "sources not found", contentHash |-> NullHash,
            logs |-> warnings \o
                     <<DecisionLine("debug", "MISS", key, o.worktree, "sources not found", NULL, NullHash)>>,
            push |-> <<original>>, track |-> <<untracked>>, worktree |-> tree]
    ELSE
      LET contentHash == computeContentHash(sourceHashes)
          pointer == loadPointerFile(ptrX, PointerPath(hashDir, key, contentHash))
          cachedOutputsExist ==
            IF pointer # NULL
              THEN checkOutputsExist(OutTree(outX, root, pointer.outputDir), outputDir)
              ELSE FALSE
      IN
      IF shouldSkip(forceRun, pointer, cachedOutputsExist)
        THEN [decision |-> "HIT", reason |-> "", contentHash |-> contentHash,
              logs |-> warnings \o
                       <<DecisionLine("info", "HIT", key, o.worktree, "", sourceHashes, contentHash)>>,
              push |-> IF HasScan(entry.scan)
                         THEN <<[run |-> NoopRun, scan |-> scanConfigs(root, pointer, entry.scan)]>>
                         ELSE <<>>,
              track |-> <<>>,
              worktree |-> IF Len(run.restoreToWorktree) > 0
                             THEN restoreFilesToWorktree(
                                    OutTree(outX, root, pointer.outputDir), outputDir, tree, outputDir,
                                    [isArray |-> TRUE, items |-> run.restoreToWorktree]).worktree
                             ELSE tree,
              restoredFrom |-> pointer.outputDir]
        ELSE [decision |-> "MISS", reason |-> MissReason(forceRun, pointer),
              contentHash |-> contentHash,
              logs |-> warnings \o
                       <<DecisionLine("info", "MISS", key, o.worktree, MissReason(forceRun, pointer),
                                      sourceHashes, contentHash)>>,
              push |-> <<original>>,
              track |-> <<CacheEntry(o.name, hashDir, key, allSources, allSourceCommands,
                                     o.worktree, outputDir, sourceHashes, contentHash)>>,
              worktree |-> tree]

(***************************************************************************)
(* lib/collector-cache-extension.js: beforePublish, one entry              *)
(***************************************************************************)
\* const cacheDir = DEFAULT_CACHE_DIR
PublishCacheRoot == DEFAULT_CACHE_DIR

\* logger.warn(`Source files still not found ...`) / logger.warn(`Output directory not found ...`)
PublishWarning(what, entry) == [level |-> "warn", msg |-> what, a |-> entry.key, b |-> entry.worktree]

\* a pointer object that leaves outputDir unset
PointerRecordWithoutOutputDir(contentHash, entry, sourceHashes, now) ==
  [outputDir |-> NullHash, scanDir |-> entry.outputDir, sources |-> sourceHashes,
   timestamp |-> now]

\* const pointer = { outputDir: contentHash, scanDir: entry.outputDir, sources: sourceHashes,
\*                   timestamp: new Date().toISOString() }
PointerRecord(contentHash, entry, sourceHashes, now) ==
  [outputDir |-> contentHash, scanDir |-> entry.outputDir, sources |-> sourceHashes,
   timestamp |-> now]

\* a skip that leaves a pointer over the sources that were found: none
SourcesStillNotFoundWritesPointer(entry, warnings, ptrX, outX, now) ==
  [ptr |-> savePointerFile(ptrX,
                           PointerPath(entry.componentHashDir, entry.key,
                                       computeContentHash(EmptyObject)),
                           PointerRecord(computeContentHash(EmptyObject), entry, EmptyObject, now)),
   out |-> outX, wrote |-> TRUE,
   logs |-> warnings \o <<PublishWarning("sources still not found", entry)>>]

\* if (!sourceHashes) { logger.warn(`Source files still not found for ...`); continue }
SourcesStillNotFound(entry, warnings, ptrX, outX, now) ==
  [ptr |-> ptrX, out |-> outX, wrote |-> FALSE,
   logs |-> warnings \o <<PublishWarning("sources still not found", entry)>>]

\* a population that checks for the output directory before it writes the pointer
OutputNotFoundSkipsPointer(entry, warnings, ptrX, written, outX) ==
  [ptr |-> ptrX, out |-> outX, wrote |-> FALSE,
   logs |-> warnings \o <<PublishWarning("output directory not found", entry)>>]

\* else { logger.warn(`Output directory not found: ${sourceOutputPath}`) }, reached
\* after the pointer file was written
OutputNotFound(entry, warnings, ptrX, written, outX) ==
  [ptr |-> written, out |-> outX, wrote |-> TRUE,
   logs |-> warnings \o <<PublishWarning("output directory not found", entry)>>]

\* The body of the per-entry try block of beforePublish: the pointer files and
\* stored outputs afterwards, the lines logged, and whether a pointer was written.
Populate(entry, tree, files, fails, ptrX, outX, now) ==
  LET resolved == resolveSources(existsSync(tree, <<>>), fails, entry.sources,
                                 entry.sourceCommands, entry.key)
      rehash == entry.sourceHashes = NULL
      sourceHashes == IF rehash THEN computeHashes(files, resolved.sources) ELSE entry.sourceHashes
      warnings == IF rehash THEN resolved.warnings ELSE <<>>
  IN
  IF rehash /\ readFileSyncThrows(files, resolved.sources)
    THEN [ptr |-> ptrX, out |-> outX, wrote |-> FALSE,
          logs |-> warnings \o <<[level |-> "error", msg |-> "failed to update cache",
                                   a |-> entry.key, b |-> entry.worktree]>>]
  ELSE IF sourceHashes = NULL
    THEN SourcesStillNotFound(entry, warnings, ptrX, outX, now)
  ELSE
    LET contentHash == IF rehash THEN computeContentHash(sourceHashes) ELSE entry.contentHash
        pointer == PointerRecord(contentHash, entry, sourceHashes, now)
        pointerPath == PointerPath(entry.componentHashDir, entry.key, contentHash)
        written == savePointerFile(ptrX, pointerPath, pointer)
        stored == OutTree(outX, PublishCacheRoot, contentHash)
    IN
    IF /\ existsSync(tree, entry.outputDir)
       /\ existsSync(stored, entry.outputDir)
       /\ readdirSyncThrows(stored, entry.outputDir)
      THEN [ptr |-> written, out |-> outX, wrote |-> TRUE,
            logs |-> warnings \o <<[level |-> "error", msg |-> "failed to update cache",
                                     a |-> entry.key, b |-> entry.worktree]>>]
    ELSE IF existsSync(tree, entry.outputDir)
      THEN [ptr |-> written,
            out |-> SetOutTree(outX, PublishCacheRoot, contentHash,
                               copyDirectory(tree, entry.outputDir, stored, entry.outputDir)),
            wrote |-> TRUE,
            logs |-> warnings \o
                     <<[level |-> "info", msg |-> "cached", a |-> entry.key, b |-> entry.worktree]>>]
      ELSE OutputNotFound(entry, warnings, ptrX, written, outX)

(***************************************************************************)
(* The host process is not running: used while a utility is evaluated on   *)
(* its own.                                                                *)
(***************************************************************************)
EmptyMap == [x \in {} |-> 0]

MainOff ==
  /\ cfg = <<>>
  /\ force = FALSE
  /\ dryRun = FALSE
  /\ src = EmptyMap
  /\ wt = EmptyMap
  /\ cmdFails = FALSE
  /\ ptr = EmptyMap
  /\ out = EmptyMap
  /\ clock = 0
  /\ pc = "off"
  /\ oi = 0
  /\ ei = 0
  /\ bi = 0
  /\ pi = 0
  /\ collector = <<>>
  /\ cacheEntries = <<>>
  /\ log = <<>>
  /\ runs = 0
  /\ edits = 0

(***************************************************************************)
(* SpecHash: computeHashes and computeContentHash applied to every         *)
(* worktree content and every source list within the bounds.               *)
(***************************************************************************)
InitHash ==
  /\ MainOff
  /\ h \in [pc : {"start"},
            files : [SourceNames -> 0..MaxContent],
            sources : SeqsUpTo(SourceNames, MaxListLen),
            hashes : {NULL},
            contentHash : {0}]

\* const sourceHashes = computeHashes(worktree, resolvedSources, ...)
HashSources ==
  /\ h.pc = "start"
  /\ h' = [h EXCEPT !.pc = "hashed", !.hashes = computeHashes(h.files, h.sources)]
  /\ UNCHANGED mainVars

\* const contentHash = computeContentHash(sourceHashes)
FingerprintSources ==
  /\ h.pc = "hashed"
  /\ h.hashes # NULL
  /\ h' = [h EXCEPT !.pc = "fingerprinted", !.contentHash = computeContentHash(h.hashes)]
  /\ UNCHANGED mainVars

NextHash == HashSources \/ FingerprintSources

SpecHash == InitHash /\ [][NextHash]_vars

(***************************************************************************)
(* SpecDeps: resolveDependencySources run step by step (one step per loop  *)
(* iteration or return) on every registry within the bounds.  The call     *)
(* stack is explicit: the last frame is the running invocation.            *)
(***************************************************************************)
DepKeys == {"a", "b", "c"}

\* sources / sourceCommands each registry entry declares
DepOwnSources(k) ==
  IF k = "a" THEN <<"src/main.c">> ELSE IF k = "b" THEN <<"lib/helper.c">> ELSE <<"src/gen.c">>

DepOwnCommands(k) == IF k = "c" THEN <<"list-generated">> ELSE <<>>

\* every registry over DepKeys that contains the root entry "a"
Registries ==
  {reg \in UNION {[ks -> SeqsUpTo(DepKeys, MaxDepLen)] : ks \in SUBSET DepKeys} :
     "a" \in DOMAIN reg}

\* buildEntriesMap value for a choice of dependsOn lists
RegistryMap(reg) ==
  [k \in DOMAIN reg |-> [key |-> k, sources |-> DepOwnSources(k),
                         sourceCommands |-> DepOwnCommands(k), dependsOn |-> reg[k]]]

\* a push that leaves out what the accumulator already holds
PushAllUnique(all, items) == all \o SelectSeq(items, LAMBDA x : x \notin Range(all))

\* allSources.push(...items)
PushAll(all, items) == all \o items

Frame(key, dependsOn, visited) ==
  [key |-> key, dependsOn |-> dependsOn, i |-> 1, visited |-> visited,
   allSources |-> <<>>, allSourceCommands |-> <<>>]

InitDeps ==
  /\ MainOff
  /\ \E reg \in Registries :
       h = [pc |-> "resolving",
            entriesMap |-> RegistryMap(reg),
            stack |-> <<Frame("a", reg["a"], {"a"})>>,
            warnings |-> <<>>,
            steps |-> 0,
            result |-> NoDepSources]

DepTop == h.stack[Len(h.stack)]

DepRunning == h.pc = "resolving" /\ DepTop.i <= Len(DepTop.dependsOn)

DepKey == DepTop.dependsOn[DepTop.i]

DepAdvance(f) == [f EXCEPT !.i = f.i + 1]

\* if (visited.has(depKey)) { warn; continue }
DepSkipCircular ==
  /\ DepRunning
  /\ IsCircular(DepTop.visited, DepKey)
  /\ h' = [h EXCEPT !.stack[Len(h.stack)] = DepAdvance(DepTop),
                    !.warnings = Append(h.warnings, CircularWarning(DepTop.key, DepKey)),
                    !.steps = h.steps + 1]
  /\ UNCHANGED mainVars

\* if (!depEntry) { warn; continue }
DepSkipMissing ==
  /\ DepRunning
  /\ ~IsCircular(DepTop.visited, DepKey)
  /\ DepKey \notin DOMAIN h.entriesMap
  /\ h' = [h EXCEPT !.stack[Len(h.stack)] = DepAdvance(DepTop),
                    !.warnings = Append(h.warnings, NotFoundWarning(DepTop.key, DepKey)),
                    !.steps = h.steps + 1]
  /\ UNCHANGED mainVars

\* push the dependency's sources and sourceCommands; recurse when it has dependencies
DepVisit ==
  /\ DepRunning
  /\ ~IsCircular(DepTop.visited, DepKey)
  /\ DepKey \in DOMAIN h.entriesMap
  /\ LET depEntry == h.entriesMap[DepKey]
         me == [DepAdvance(DepTop) EXCEPT
                  !.allSources = PushAll(@, depEntry.sources),
                  !.allSourceCommands = PushAll(@, depEntry.sourceCommands)]
         called == Frame(DepKey, depEntry.dependsOn, NewVisited(DepTop.visited, DepKey))
     IN h' = [h EXCEPT
                !.stack = IF Len(depEntry.dependsOn) > 0
                            THEN Append([h.stack EXCEPT ![Len(h.stack)] = me], called)
                            ELSE [h.stack EXCEPT ![Len(h.stack)] = me],
                !.steps = h.steps + 1]
  /\ UNCHANGED mainVars

\* return { sources: allSources, sourceCommands: allSourceCommands }
DepReturn ==
  /\ h.pc = "resolving"
  /\ DepTop.i > Len(DepTop.dependsOn)
  /\ IF Len(h.stack) = 1
       THEN h' = [h EXCEPT !.pc = "done",
                           !.result = [sources |-> DepTop.allSources,
                                       sourceCommands |-> DepTop.allSourceCommands,
                                       warnings |-> h.warnings]]
       ELSE LET caller == h.stack[Len(h.stack) - 1]
                back == [caller EXCEPT
                           !.allSources = PushAll(@, DepTop.allSources),
                           !.allSourceCommands = PushAll(@, DepTop.allSourceCommands)]
            IN h' = [h EXCEPT !.stack = [Front(h.stack) EXCEPT ![Len(h.stack) - 1] = back]]
  /\ UNCHANGED mainVars

NextDeps == DepSkipCircular \/ DepSkipMissing \/ DepVisit \/ DepReturn

\* The resolver is synchronous code: once called it runs to its return.
SpecDeps == InitDeps /\ [][NextDeps]_vars /\ WF_vars(NextDeps)

(***************************************************************************)
(* SpecSources: resolveSources applied to every static source list and     *)
(* every way its commands can end within the bounds.                       *)
(***************************************************************************)
\* a line of stdout: the text trim() leaves, and whether there was white space
\* around it.  A blank line has no text.
StdoutLines ==
  {[text |-> "", padded |-> TRUE],
   [text |-> "src/gen.c", padded |-> FALSE],
   [text |-> "src/gen.c", padded |-> TRUE],
   [text |-> "src/main.c", padded |-> FALSE]}

CommandOutcomes ==
  [status : {"exit 0", "exit 1"}, stdout : SeqsUpTo(StdoutLines, MaxLines)]
  \cup {[status |-> "spawn error", stdout |-> <<>>]}

StaticSourceLists ==
  {<<>>, <<"src/main.c">>, <<"src/main.c", "src/main.c">>, <<"src/main.c", "lib/helper.c">>}

\* the i-th command of an entry
CommandName(i) == <<"list-generated", "list-headers", "list-docs", "list-more">>[i]

InitSources ==
  /\ MainOff
  /\ \E static \in StaticSourceLists : \E outcomes \in SeqsUpTo(CommandOutcomes, MaxCommands) :
       h = [pc |-> "start",
            staticSources |-> static,
            sourceCommands |-> [i \in 1..Len(outcomes) |-> CommandName(i)],
            outcomes |-> outcomes,
            resolved |-> NULL]

\* const resolvedSources = await resolveSources(worktree, allSources, allSourceCommands, ...)
ResolveSources ==
  /\ h.pc = "start"
  /\ h' = [h EXCEPT !.pc = "resolved",
                    !.resolved = resolveSourcesWith(h.outcomes, h.staticSources,
                                                    h.sourceCommands, "main")]
  /\ UNCHANGED mainVars

NextSources == ResolveSources

SpecSources == InitSources /\ [][NextSources]_vars

(***************************************************************************)
(* SpecRestore: restoreFilesToWorktree applied to stored output            *)
(* directories, worktrees and pattern lists within the bounds.             *)
(***************************************************************************)
CacheOutputDir == <<"outputs", "build">>

WorktreeOutputDir == <<"build">>

\* the files a stored output directory or a worktree output directory may hold
RestorableFiles == {<<"index.html">>, <<"notes.txt">>, <<"sub", "page.html">>, <<"sub", ".hidden">>}

GlobPatterns == {<<"*">>, <<"**", "*">>, <<"*.html">>, <<"**", "*.html">>, <<"sub", "*">>, <<"notes.txt">>}

\* the tree that has dir (when present) and under it the given files with one content
TreeOf(dir, present, files, content) ==
  LET dirs == IF present THEN UNION {Prefixes(dir \o Front(rel)) : rel \in files} \cup Prefixes(dir) ELSE {}
      regular == IF present THEN {dir \o rel : rel \in files} ELSE {}
  IN [q \in dirs \cup regular |-> IF q \in regular THEN FileNode(content) ELSE DirNode]

InitRestore ==
  /\ MainOff
  /\ \E stored \in SUBSET RestorableFiles : \E existing \in SUBSET RestorableFiles :
     \E storedPresent \in BOOLEAN : \E worktreePresent \in BOOLEAN :
     \E isArray \in BOOLEAN : \E items \in SeqsUpTo(GlobPatterns, MaxPatterns) :
       /\ storedPresent \/ stored = {}
       /\ worktreePresent \/ existing = {}
       /\ isArray \/ items = <<>>
       /\ h = [pc |-> "start",
                store |-> TreeOf(CacheOutputDir, storedPresent, stored, 1),
                worktree |-> TreeOf(WorktreeOutputDir, worktreePresent, existing, 2),
                patterns |-> [isArray |-> isArray, items |-> items],
                before |-> EmptyTree,
                count |-> 0,
                copies |-> 0]

\* restoreFilesToWorktree(cacheOutputPath, worktreeOutputPath, restorePatterns, ...)
RestoreFiles ==
  /\ h.pc = "start"
  /\ LET r == restoreFilesToWorktree(h.store, CacheOutputDir, h.worktree, WorktreeOutputDir, h.patterns)
     IN h' = [h EXCEPT !.pc = "restored", !.before = h.worktree, !.worktree = r.worktree,
                       !.count = r.count, !.copies = r.copies]
  /\ UNCHANGED mainVars

NextRestore == RestoreFiles

SpecRestore == InitRestore /\ [][NextRestore]_vars

(***************************************************************************)
(* SpecOutputs: checkOutputsExist applied to every file tree within the    *)
(* bounds that has or lacks an entry at the output path.                   *)
(***************************************************************************)
EntryNames == {"a", "b"}

OutputPath == <<"out">>

Overlay(f, g) == [q \in DOMAIN f \cup DOMAIN g |-> IF q \in DOMAIN f THEN f[q] ELSE g[q]]

\* what can be at path p: nothing, a file, a symbolic link, or a directory with,
\* for each name, whatever can be at that entry
RECURSIVE TreesAt(_, _)
TreesAt(p, levels) ==
  LET node(n) == [q \in {p} |-> n]
      below(name) == TreesAt(Append(p, name), levels - 1)
  IN {EmptyTree, node(FileNode(1)), node(LinkNode)}
     \cup IF levels = 0 THEN {node(DirNode)}
          ELSE {Overlay(node(DirNode), Overlay(ta, tb)) : ta \in below("a"), tb \in below("b")}

InitOutputs ==
  /\ MainOff
  /\ \E t \in TreesAt(OutputPath, MaxDepth) :
       h = [pc |-> "start", tree |-> t, outputPath |-> OutputPath, exists |-> FALSE]

\* cachedOutputsExist = checkOutputsExist(cachedOutputPath, logger)
CheckOutputs ==
  /\ h.pc = "start"
  /\ h' = [h EXCEPT !.pc = "checked", !.exists = checkOutputsExist(h.tree, h.outputPath)]
  /\ UNCHANGED mainVars

NextOutputs == CheckOutputs

SpecOutputs == InitOutputs /\ [][NextOutputs]_vars

(***************************************************************************)
(* SpecSteps: the try block of contentAggregated for one valid entry, one   *)
(* step per statement group, on every combination of worktree, source       *)
(* files, force signal, pointer file and stored output.                     *)
(***************************************************************************)
\* what a worktree can hold at a source path: nothing, a file, a directory
StepFiles == [SourceNames -> {0, 1, Directory}]

\* the origins whose last entry is main, from the scenarios of one origin
StepOrigins == {Origin(f, "w1") : f \in {g \in Scenarios : ~g.emptySources /\ ~g.twin}}

StepEntry(o) == o.cacheConfig.entries[Len(o.cacheConfig.entries)]

StoredBuild == writeNode(mkdirSync(EmptyTree, <<"build">>), <<"build", "index.html">>, FileNode(1))

\* a store that holds, or not, the pointer and the output of the fingerprint the
\* files give
StepStore(o, files, fails, hasPointer, hasOutput) ==
  LET hashes == ResolveEntry(o, StepEntry(o), files, fails).sourceHashes
      hashable == hashes # NULL /\ ~readFileSyncThrows(files, ResolveEntry(o, StepEntry(o), files, fails).resolvedSources)
      F == IF hashable THEN computeContentHash(hashes) ELSE 1
      root == CacheRoot(o.cacheConfig)
      hashDir == ComponentHashDir(root, o.name)
  IN [ptr |-> IF hasPointer
                THEN savePointerFile(EmptyMap, PointerPath(hashDir, "main", F),
                                     [outputDir |-> F, scanDir |-> <<"build">>,
                                      sources |-> EmptyObject, timestamp |-> 0])
                ELSE EmptyMap,
      out |-> IF hasOutput THEN SetOutTree(EmptyMap, root, F, StoredBuild) ELSE EmptyMap]

InitSteps ==
  /\ MainOff
  /\ \E o \in StepOrigins, files \in StepFiles, there, forceRun, fails, hasPointer, hasOutput \in BOOLEAN :
       h = [pc |-> "start", origin |-> o, worktreeExists |-> there, files |-> files,
            fails |-> fails /\ StepEntry(o).run.sourceCommands # <<>>, forceRun |-> forceRun,
            store |-> StepStore(o, files, fails /\ StepEntry(o).run.sourceCommands # <<>>,
                                hasPointer, hasOutput),
            steps |-> <<>>, resolvedSources |-> <<>>, sourceHashes |-> NULL,
            contentHash |-> NullHash, pointer |-> NULL, cachedOutputsExist |-> FALSE,
            decision |-> "", reason |-> ""]

\* a hashing step that goes on to the decision without the pointer lookup
StepAfterHashSkipsLookup(sourceHashes) == IF sourceHashes = NULL THEN "decided" ELSE "decide"

\* if (sourceHashes === null) { ...; continue }, else on to the pointer lookup
StepAfterHash(sourceHashes) == IF sourceHashes = NULL THEN "decided" ELSE "lookup"

\* if (!fs.existsSync(worktree)) { ... cache MISS ...; continue }
CheckWorktree ==
  /\ h.pc = "start"
  /\ h' = IF h.worktreeExists
            THEN [h EXCEPT !.pc = "resolve"]
            ELSE [h EXCEPT !.pc = "decided", !.decision = "MISS", !.reason = "worktree missing"]
  /\ UNCHANGED mainVars

\* resolveDependencySources, allSources, allSourceCommands, resolveSources
ResolveStep ==
  /\ h.pc = "resolve"
  /\ h' = [h EXCEPT !.pc = "hash",
                    !.steps = Append(@, "resolve"),
                    !.resolvedSources =
                       ResolveEntry(h.origin, StepEntry(h.origin), h.files, h.fails).resolvedSources]
  /\ UNCHANGED mainVars

\* computeHashes over the resolved sources, then computeContentHash; a source that
\* is a directory throws into the catch block
HashStep ==
  /\ h.pc = "hash"
  /\ LET sourceHashes == computeHashes(h.files, h.resolvedSources)
     IN h' = IF readFileSyncThrows(h.files, h.resolvedSources)
               THEN [h EXCEPT !.pc = "decided", !.decision = "ERROR", !.reason = "EISDIR"]
             ELSE IF sourceHashes = NULL
               THEN [h EXCEPT !.pc = StepAfterHash(sourceHashes), !.decision = "MISS",
                              !.reason = "sources not found"]
             ELSE [h EXCEPT !.pc = StepAfterHash(sourceHashes),
                            !.steps = Append(@, "hash"),
                            !.sourceHashes = sourceHashes,
                            !.contentHash = computeContentHash(sourceHashes)]
  /\ UNCHANGED mainVars

\* loadPointerFile(pointerPath), and checkOutputsExist when a pointer loaded
LookupStep ==
  /\ h.pc = "lookup"
  /\ LET root == CacheRoot(h.origin.cacheConfig)
         pointerPath == PointerPath(ComponentHashDir(root, h.origin.name),
                                    StepEntry(h.origin).run.key, h.contentHash)
         pointer == loadPointerFile(h.store.ptr, pointerPath)
     IN h' = [h EXCEPT !.pc = "decide",
                       !.steps = Append(@, "lookup"),
                       !.pointer = pointer,
                       !.cachedOutputsExist =
                          IF pointer # NULL
                            THEN checkOutputsExist(OutTree(h.store.out, root, pointer.outputDir),
                                                   StepEntry(h.origin).run.cacheDir)
                            ELSE FALSE]
  /\ UNCHANGED mainVars

\* const shouldSkip = ...; if (shouldSkip) { Cache HIT } else { Cache MISS (reason) }
DecideStep ==
  /\ h.pc = "decide"
  /\ h' = [h EXCEPT !.pc = "decided",
                    !.steps = Append(@, "decide"),
                    !.decision = IF shouldSkip(h.forceRun, h.pointer, h.cachedOutputsExist)
                                   THEN "HIT" ELSE "MISS",
                    !.reason = IF shouldSkip(h.forceRun, h.pointer, h.cachedOutputsExist)
                                 THEN "" ELSE MissReason(h.forceRun, h.pointer)]
  /\ UNCHANGED mainVars

NextSteps ==
  \/ CheckWorktree
  \/ ResolveStep
  \/ HashStep
  \/ LookupStep
  \/ DecideStep

SpecSteps == InitSteps /\ [][NextSteps]_vars

(***************************************************************************)
(* SpecRace: two host processes populate the same fingerprint and cacheDir *)
(* at the same time, each from the output of its own build, while a third  *)
(* process decides on that fingerprint.  Every call on the shared cache    *)
(* store is a step of its own: the pointer write, existsSync, rmSync,      *)
(* mkdirSync and each copyFileSync of copyDirectory, the pointer load and  *)
(* the existence check of the decision.                                    *)
(***************************************************************************)
RaceOutputDir == <<"build">>

Populators == {1, 2}

\* what a build left under <worktree>/build: index.html and, when page is not
\* 0, sub/page.html
BuiltTree(index, page) ==
  LET top == writeNode(mkdirSync(EmptyTree, RaceOutputDir), <<"build", "index.html">>, FileNode(index))
  IN IF page = 0 THEN top
     ELSE writeNode(mkdirSync(top, <<"build", "sub">>), <<"build", "sub", "page.html">>, FileNode(page))

RaceBuilds == {BuiltTree(1, 0), BuiltTree(1, 1), BuiltTree(2, 2)}

\* the stored output before the race: nothing, or the complete output of an
\* earlier population of the fingerprint
RacePriorStores == {EmptyTree} \cup {copyDirectory(b, RaceOutputDir, EmptyTree, RaceOutputDir) : b \in RaceBuilds}

\* the pointer file of the fingerprint
RacePointer == [outputDir |-> 1, scanDir |-> RaceOutputDir, sources |-> EmptyObject, timestamp |-> 0]

\* one call of copyDirectory(source, destination): the entries still to copy
CopyFrame(source, destination, entries) == [source |-> source, destination |-> destination, entries |-> entries]

InitRace ==
  /\ MainOff
  /\ \E b1, b2 \in RaceBuilds, prior \in RacePriorStores :
       h = [pc |-> "racing",
            store |-> prior,
            pointer |-> IF prior = EmptyTree THEN NULL ELSE RacePointer,
            procs |-> [p \in Populators |->
                         [pc |-> "pointer", source |-> IF p = 1 THEN b1 ELSE b2, stack |-> <<>>]],
            decider |-> [pc |-> "load", pointer |-> NULL, decision |-> ""]]

\* the calls of copyDirectory that have copied all their entries return
RECURSIVE Unwind(_)
Unwind(stack) ==
  IF stack # <<>> /\ Last(stack).entries = <<>> THEN Unwind(Front(stack)) ELSE stack

\* where a populator is once its stack is what it is
AfterCopy(stack) == IF stack = <<>> THEN "done" ELSE "copy"

\* fs.mkdirSync(destination, { recursive: true }) throws when a plain file is in the way
mkdirSyncThrows(t, destination) == \E q \in Prefixes(destination) : isFile(t, q)

\* fs.copyFileSync(sourcePath, destPath) throws when the directory of destPath
\* is not there (ENOENT) or destPath is a directory (EISDIR)
copyFileSyncThrows(t, destPath) == ~isDirectory(t, Front(destPath)) \/ isDirectory(t, destPath)

\* fs.writeFileSync(pointerPath, JSON.stringify(pointer, null, 2), 'utf8'), then
\* if (fs.existsSync(sourceOutputPath)) copyDirectory(sourceOutputPath, cachedOutputPath)
WritePointerRace ==
  \E p \in Populators :
    /\ h.procs[p].pc = "pointer"
    /\ h' = [h EXCEPT !.pointer = RacePointer,
                      !.procs[p].pc = IF existsSync(h.procs[p].source, RaceOutputDir) THEN "exists" ELSE "done",
                      !.procs[p].stack = <<CopyFrame(RaceOutputDir, RaceOutputDir, <<>>)>>]
    /\ UNCHANGED mainVars

\* copyDirectory: if (fs.existsSync(destination))
CheckDestination ==
  \E p \in Populators :
    /\ h.procs[p].pc = "exists"
    /\ h' = [h EXCEPT !.procs[p].pc =
                         IF existsSync(h.store, Last(h.procs[p].stack).destination) THEN "rm" ELSE "mkdir"]
    /\ UNCHANGED mainVars

\* copyDirectory: fs.rmSync(destination, { recursive: true, force: true })
RemoveDestination ==
  \E p \in Populators :
    /\ h.procs[p].pc = "rm"
    /\ h' = [h EXCEPT !.store = rmSync(h.store, Last(h.procs[p].stack).destination),
                      !.procs[p].pc = "mkdir"]
    /\ UNCHANGED mainVars

\* copyDirectory: fs.mkdirSync(destination, { recursive: true }), then
\* const entries = fs.readdirSync(source, { withFileTypes: true })
MakeDestination ==
  \E p \in Populators :
    /\ h.procs[p].pc = "mkdir"
    /\ LET top == Last(h.procs[p].stack)
           listed == [top EXCEPT !.entries = ArrayOf(readdirSync(h.procs[p].source, top.source))]
           stack == Unwind(Append(Front(h.procs[p].stack), listed))
       IN h' = IF mkdirSyncThrows(h.store, top.destination)
                 THEN [h EXCEPT !.procs[p].pc = "failed"]
                 ELSE [h EXCEPT !.store = mkdirSync(h.store, top.destination),
                                !.procs[p].pc = AfterCopy(stack),
                                !.procs[p].stack = stack]
    /\ UNCHANGED mainVars

\* copyDirectory: one turn of the loop over the entries: a directory is copied by
\* a call of its own, a regular file by fs.copyFileSync; what copyFileSync throws
\* reaches the catch block of beforePublish ('Failed to update cache')
CopyEntry ==
  \E p \in Populators :
    /\ h.procs[p].pc = "copy"
    /\ LET top == Last(h.procs[p].stack)
           sourcePath == Head(top.entries)
           destPath == Append(top.destination, Last(sourcePath))
           rest == Append(Front(h.procs[p].stack), [top EXCEPT !.entries = Tail(top.entries)])
       IN h' = IF isDirectory(h.procs[p].source, sourcePath)
                 THEN [h EXCEPT !.procs[p].pc = "exists",
                                !.procs[p].stack = Append(rest, CopyFrame(sourcePath, destPath, <<>>))]
               ELSE IF ~isFile(h.procs[p].source, sourcePath)
                 THEN [h EXCEPT !.procs[p].pc = AfterCopy(Unwind(rest)),
                                !.procs[p].stack = Unwind(rest)]
               ELSE IF copyFileSyncThrows(h.store, destPath)
                 THEN [h EXCEPT !.procs[p].pc = "failed"]
               ELSE [h EXCEPT !.store = writeNode(h.store, destPath, h.procs[p].source[sourcePath]),
                              !.procs[p].pc = AfterCopy(Unwind(rest)),
                              !.procs[p].stack = Unwind(rest)]
    /\ UNCHANGED mainVars

\* contentAggregated of the deciding process: loadPointerFile(pointerPath)
LoadPointerRace ==
  /\ h.decider.pc = "load"
  /\ h' = [h EXCEPT !.decider.pointer = h.pointer,
                    !.decider.pc = IF h.pointer # NULL THEN "check" ELSE "decided",
                    !.decider.decision = IF h.pointer # NULL THEN "" ELSE "MISS"]
  /\ UNCHANGED mainVars

\* cachedOutputsExist = checkOutputsExist(cachedOutputPath), then the decision
CheckOutputsRace ==
  /\ h.decider.pc = "check"
  /\ h' = [h EXCEPT !.decider.pc = "decided",
                    !.decider.decision =
                       IF shouldSkip(FALSE, h.decider.pointer, checkOutputsExist(h.store, RaceOutputDir))
                         THEN "HIT" ELSE "MISS"]
  /\ UNCHANGED mainVars

NextRace ==
  \/ WritePointerRace
  \/ CheckDestination
  \/ RemoveDestination
  \/ MakeDestination
  \/ CopyEntry
  \/ LoadPointerRace
  \/ CheckOutputsRace

SpecRace == InitRace /\ [][NextRace]_vars

(***************************************************************************)
(* SpecPointer: lib/utils/cache.js, savePointerFile and loadPointerFile on *)
(* a directory tree.  The text of a file is the sequence of the JSON       *)
(* tokens in it; a string token holds the characters between its quotes,   *)
(* escapes included.  White space, which JSON.stringify(pointer, null, 2)  *)
(* adds and JSON.parse skips, is not a token.  A file system is the tree   *)
(* of its directories and files and the text of each file.                 *)
(***************************************************************************)
\* the characters JSON.stringify writes with a backslash in front
Quote == "\""

Backslash == "\\"

\* JSON values: a string, or an object with its keys in insertion order
StringValue(s) == [t |-> "string", s |-> s, keys |-> <<>>, val |-> <<>>]

EmptyObjectValue == [t |-> "object", s |-> <<>>, keys |-> <<>>, val |-> <<>>]

\* obj[key] = value
ObjectPut(obj, key, value) ==
  [obj EXCEPT !.keys = IF key \in Range(obj.keys) THEN obj.keys ELSE Append(obj.keys, key),
              !.val = [q \in DOMAIN obj.val \cup {key} |-> IF q = key THEN value ELSE obj.val[q]]]

Punct(k) == [k |-> k, text |-> <<>>]

StringToken(text) == [k |-> "string", text |-> text]

\* text that is not JSON: a bare word
WordToken == [k |-> "word", text |-> <<>>]

\* an encoder that writes a backslash in front of quotes only
RECURSIVE EscapeQuotesOnly(_)
EscapeQuotesOnly(s) ==
  IF s = <<>> THEN <<>>
  ELSE (IF Head(s) = Quote THEN <<Backslash, Head(s)>> ELSE <<Head(s)>>) \o EscapeQuotesOnly(Tail(s))

\* JSON.stringify of a string, between the quotes: \" for a quote, \\ for a backslash
RECURSIVE Escape(_)
Escape(s) ==
  IF s = <<>> THEN <<>>
  ELSE (IF Head(s) \in {Quote, Backslash} THEN <<Backslash, Head(s)>> ELSE <<Head(s)>>) \o Escape(Tail(s))

\* JSON.parse of the characters between two quotes: a backslash must be followed
\* by a character it can escape, a quote cannot stand alone
RECURSIVE UnescapeThrows(_)
UnescapeThrows(text) ==
  IF text = <<>> THEN FALSE
  ELSE IF Head(text) = Quote THEN TRUE
  ELSE IF Head(text) = Backslash
    THEN Len(text) < 2 \/ text[2] \notin {Quote, Backslash} \/ UnescapeThrows(Tail(Tail(text)))
  ELSE UnescapeThrows(Tail(text))

RECURSIVE Unescape(_)
Unescape(text) ==
  IF text = <<>> THEN <<>>
  ELSE IF Head(text) = Backslash THEN <<text[2]>> \o Unescape(Tail(Tail(text)))
  ELSE <<Head(text)>> \o Unescape(Tail(text))

\* JSON.stringify(value, null, 2)
RECURSIVE JSONstringifyText(_)
RECURSIVE StringifyMembers(_, _)
StringifyMembers(value, i) ==
  IF i > Len(value.keys) THEN <<>>
  ELSE (IF i > 1 THEN <<Punct(",")>> ELSE <<>>)
       \o <<StringToken(Escape(value.keys[i])), Punct(":")>>
       \o JSONstringifyText(value.val[value.keys[i]])
       \o StringifyMembers(value, i + 1)

JSONstringifyText(value) ==
  IF value.t = "string" THEN <<StringToken(Escape(value.s))>>
  ELSE <<Punct("{")>> \o StringifyMembers(value, 1) \o <<Punct("}")>>

\* JSON.parse: a value at the front of the tokens, and the tokens after it
ParseFailed == [ok |-> FALSE, value |-> EmptyObjectValue, rest |-> <<>>]

RECURSIVE ParseValue(_)
RECURSIVE ParseMembers(_, _)
ParseMembers(tokens, obj) ==
  IF Len(tokens) < 2 \/ tokens[1].k # "string" \/ UnescapeThrows(tokens[1].text) \/ tokens[2].k # ":"
    THEN ParseFailed
  ELSE
    LET member == ParseValue(Tail(Tail(tokens)))
        object == ObjectPut(obj, Unescape(tokens[1].text), member.value)
    IN IF ~member.ok \/ member.rest = <<>> THEN ParseFailed
       ELSE IF Head(member.rest).k = "}" THEN [ok |-> TRUE, value |-> object, rest |-> Tail(member.rest)]
       ELSE IF Head(member.rest).k = "," THEN ParseMembers(Tail(member.rest), object)
       ELSE ParseFailed

ParseValue(tokens) ==
  IF tokens = <<>> THEN ParseFailed
  ELSE IF Head(tokens).k = "string"
    THEN IF UnescapeThrows(Head(tokens).text) THEN ParseFailed
         ELSE [ok |-> TRUE, value |-> StringValue(Unescape(Head(tokens).text)), rest |-> Tail(tokens)]
  ELSE IF Head(tokens).k = "{"
    THEN IF Len(tokens) > 1 /\ tokens[2].k = "}"
           THEN [ok |-> TRUE, value |-> EmptyObjectValue, rest |-> Tail(Tail(tokens))]
           ELSE ParseMembers(Tail(tokens), EmptyObjectValue)
  ELSE ParseFailed

\* JSON.parse(content) throws a SyntaxError
JSONparseThrows(content) == ~ParseValue(content).ok \/ ParseValue(content).rest # <<>>

JSONparseText(content) == ParseValue(content).value

\* loadPointerFile(pointerPath, logger): null when nothing is at the path, and
\* when readFileSync or JSON.parse throws
loadPointerFileAt(fsys, pointerPath) ==
  IF ~existsSync(fsys.tree, pointerPath) THEN [threw |-> FALSE, pointer |-> NULL]
  ELSE IF ~isFile(fsys.tree, pointerPath) \/ JSONparseThrows(fsys.text[pointerPath])
    THEN [threw |-> FALSE, pointer |-> NULL]
  ELSE [threw |-> FALSE, pointer |-> JSONparseText(fsys.text[pointerPath])]

\* savePointerFile(pointerPath, pointer, logger): mkdirSync of the directory of the
\* path, then writeFileSync; either call throws when what is in the way is of the
\* wrong kind
savePointerFileThrows(fsys, pointerPath) ==
  mkdirSyncThrows(fsys.tree, Front(pointerPath)) \/ isDirectory(fsys.tree, pointerPath)

\* fs.writeFileSync(path, text, 'utf8')
writeFileSync(fsys, path, text) ==
  [tree |-> writeNode(fsys.tree, path, FileNode(1)),
   text |-> [q \in DOMAIN fsys.text \cup {path} |-> IF q = path THEN text ELSE fsys.text[q]]]

savePointerFileAt(fsys, pointerPath, pointer) ==
  writeFileSync([fsys EXCEPT !.tree = mkdirSync(fsys.tree, Front(pointerPath))], pointerPath,
                JSONstringifyText(pointer))

\* Strings: file paths with and without characters that need an escape; digests
PathStrings == {<<"a">>, <<"a", Quote>>, <<Backslash, "a">>, <<Backslash, Quote>>}

DigestStrings == {<<"d1">>, <<"d2">>}

\* the sequences of n different elements of S
Arrangements(S, n) == {a \in [1..n -> S] : \A i, j \in 1..n : i # j => a[i] # a[j]}

\* the source hashes of up to MaxListLen paths, as a JSON object
RECURSIVE HashesObject(_, _, _)
HashesObject(keys, digest, obj) ==
  IF keys = <<>> THEN obj
  ELSE HashesObject(Tail(keys), digest, ObjectPut(obj, Head(keys), StringValue(digest[Head(keys)])))

SourceHashObjects ==
  UNION {{HashesObject(keys, digest, EmptyObjectValue) : digest \in [Range(keys) -> DigestStrings]} :
           keys \in UNION {Arrangements(PathStrings, n) : n \in 0..MaxListLen}}

\* const pointer = { outputDir, scanDir, sources, timestamp }
PointerValue(outputDir, scanDir, sources, timestamp) ==
  ObjectPut(ObjectPut(ObjectPut(ObjectPut(EmptyObjectValue,
    <<"outputDir">>, StringValue(outputDir)), <<"scanDir">>, StringValue(scanDir)),
    <<"sources">>, sources), <<"timestamp">>, StringValue(timestamp))

PointerValues ==
  {PointerValue(<<"F">>, scanDir, sources, <<"2026">>) : scanDir \in {<<"build">>, <<"build", Backslash, "out">>}, sources \in SourceHashObjects}

PointerFilePath == <<"hashes", "docs", "main", "F.json">>

\* an earlier pointer file of the path
EarlierPointer == PointerValue(<<"F">>, <<"old">>, EmptyObjectValue, <<"2025">>)

\* what is there before: nothing, the directory, an earlier pointer file, a file
\* that is not JSON, a pointer file cut short, a pointer file with a wrong
\* escape, a directory where the file should be
PointerTrees ==
  LET none == [tree |-> EmptyTree, text |-> <<>>]
      dir == [tree |-> mkdirSync(EmptyTree, Front(PointerFilePath)), text |-> <<>>]
      text == JSONstringifyText(EarlierPointer)
  IN {none, dir,
      writeFileSync(dir, PointerFilePath, text),
      writeFileSync(dir, PointerFilePath, <<WordToken, WordToken, WordToken>>),
      writeFileSync(dir, PointerFilePath, Front(text)),
      writeFileSync(dir, PointerFilePath, <<StringToken(<<Backslash, "a">>)>>),
      [dir EXCEPT !.tree = mkdirSync(dir.tree, PointerFilePath)]}

InitPointer ==
  /\ MainOff
  /\ \E fsys \in PointerTrees, pointer \in PointerValues :
       h = [pc |-> "start", fsys |-> fsys, before |-> fsys, pointer |-> pointer,
            saved |-> FALSE, threw |-> FALSE, loaded |-> NULL]

\* savePointerFile(pointerPath, pointer)
SavePointer ==
  /\ h.pc = "start"
  /\ h' = IF savePointerFileThrows(h.fsys, PointerFilePath)
            THEN [h EXCEPT !.pc = "threw", !.threw = TRUE]
            ELSE [h EXCEPT !.pc = "saved", !.saved = TRUE,
                           !.fsys = savePointerFileAt(h.fsys, PointerFilePath, h.pointer)]
  /\ UNCHANGED mainVars

\* loadPointerFile(pointerPath), of a path just saved to or not
LoadPointer ==
  /\ h.pc \in {"start", "saved"}
  /\ LET r == loadPointerFileAt(h.fsys, PointerFilePath)
     IN h' = [h EXCEPT !.pc = "loaded", !.threw = r.threw, !.loaded = r.pointer]
  /\ UNCHANGED mainVars

NextPointer == SavePointer \/ LoadPointer

SpecPointer == InitPointer /\ [][NextPointer]_vars

(***************************************************************************)
(* SpecGit: contentAggregated on one origin, as far as git is concerned:   *)
(* the local-development test, the worktree the origin is given, and for   *)
(* each entry the update of the worktree (fetch, branch, checkout) that    *)
(* comes before its sources are read.  Paths are sequences of segments.    *)
(***************************************************************************)
\* an absent property of the origin (undefined)
NoPath == <<"undefined">>

\* path.join(...): "." and empty segments go, ".." takes the segment before it
RECURSIVE normalize(_, _)
normalize(done, segments) ==
  IF segments = <<>> THEN done
  ELSE IF Head(segments) \in {"", "."} THEN normalize(done, Tail(segments))
  ELSE IF Head(segments) = ".." /\ done # <<>> THEN normalize(Front(done), Tail(segments))
  ELSE normalize(Append(done, Head(segments)), Tail(segments))

pathJoin(a, b) == normalize(<<>>, a \o b)

\* origin.worktree && origin.gitdir && origin.gitdir === path.join(origin.worktree, '.git')
isLocalDevelopment(worktree, gitdir) ==
  worktree # NoPath /\ gitdir # NoPath /\ gitdir = pathJoin(worktree, <<".git">>)

\* an update of the worktree that does not ask whether the origin is local
shouldUpdateWorktreeOfLocal(local, origin) ==
  origin.gitdir # NoPath /\ origin.refname # "" /\ origin.reftype # "" /\ origin.url # ""

\* if (!isLocalDevelopment && origin.gitdir && origin.refname && origin.reftype && origin.url)
shouldUpdateWorktree(local, origin) ==
  ~local /\ origin.gitdir # NoPath /\ origin.refname # "" /\ origin.reftype # "" /\ origin.url # ""

\* const ref = `refs/${origin.reftype === 'branch' ? 'head' : origin.reftype}s/${origin.refname}`
buildRef(reftype, refname) == <<"refs", IF reftype = "branch" THEN "heads" ELSE reftype \o "s", refname>>

\* the git calls of one update, in order: fetch, then for a branch ref
\* git.branch (after listBranches), then checkout
UpdateCalls(origin) ==
  <<"fetch">> \o (IF buildRef(origin.reftype, origin.refname)[2] = "heads" THEN <<"branch">> ELSE <<>>)
  \o <<"checkout">>

\* the calls made when the call failing throws into the catch block (warn)
RECURSIVE CallsUntil(_, _)
CallsUntil(calls, failing) ==
  IF calls = <<>> THEN <<>>
  ELSE IF Head(calls) = failing THEN <<Head(calls)>>
  ELSE <<Head(calls)>> \o CallsUntil(Tail(calls), failing)

GitWorktrees == {NoPath, <<"work">>, <<"work", "">>, <<"cache", "collector", "repo@main-1a">>}

GitDirs == {NoPath, <<"work", ".git">>, <<"cache", "content", "repo-1a.git">>}

GitOrigins ==
  [worktree : GitWorktrees, gitdir : GitDirs, refname : {"", "main"},
   reftype : {"", "branch", "tag"}, url : {"", "https://host/repo.git"}]

InitGit ==
  /\ MainOff
  /\ \E origin \in GitOrigins, onDisk, found \in BOOLEAN, valid \in SeqsUpTo(BOOLEAN, MaxRuns) \ {<<>>},
        failing \in {"none", "fetch", "branch", "checkout"} :
       h = [pc |-> "origin", origin |-> origin, onDisk |-> onDisk, found |-> found,
            valid |-> valid, failing |-> failing, local |-> FALSE, worktree |-> NoPath,
            ei |-> 1, calls |-> <<>>, warnings |-> 0]

\* the local-development test, and the worktree of the origin: its own, or the
\* one found for it in the collector cache
DetectLocalDevelopment ==
  /\ h.pc = "origin"
  /\ LET worktree == IF h.origin.worktree # NoPath THEN h.origin.worktree
                     ELSE IF h.found THEN <<"cache", "collector", "repo@main-1a">>
                     ELSE NoPath
     IN h' = [h EXCEPT !.local = isLocalDevelopment(h.origin.worktree, h.origin.gitdir),
                       !.worktree = worktree,
                       !.pc = IF worktree = NoPath THEN "clone" ELSE "entries"]
  /\ UNCHANGED mainVars

\* if (!worktree): the worktree is created by git.clone when the origin has a
\* url, and the entries are scheduled without being evaluated
CloneWorktree ==
  /\ h.pc = "clone"
  /\ h' = [h EXCEPT !.pc = "done",
                    !.calls = IF h.origin.url # "" /\ h.origin.refname # "" THEN <<[call |-> "clone", dir |-> <<"cache", "collector", "repo@main-1a">>]>> ELSE <<>>]
  /\ UNCHANGED mainVars

GitNextEntry == IF h.ei = Len(h.valid) THEN "done" ELSE "entries"

\* an entry without key, sources or cacheDir is skipped
SkipInvalidEntry ==
  /\ h.pc = "entries"
  /\ ~h.valid[h.ei]
  /\ h' = [h EXCEPT !.ei = h.ei + 1, !.pc = GitNextEntry]
  /\ UNCHANGED mainVars

\* if (!fs.existsSync(worktree)) { ... continue }
SkipMissingWorktree ==
  /\ h.pc = "entries"
  /\ h.valid[h.ei]
  /\ ~h.onDisk
  /\ h' = [h EXCEPT !.ei = h.ei + 1, !.pc = GitNextEntry]
  /\ UNCHANGED mainVars

\* the update of the worktree to the current commit, in its own try block, and
\* then the rest of the evaluation of the entry
UpdateWorktree ==
  /\ h.pc = "entries"
  /\ h.valid[h.ei]
  /\ h.onDisk
  /\ LET made == IF shouldUpdateWorktree(h.local, h.origin)
                   THEN CallsUntil(UpdateCalls(h.origin), h.failing) ELSE <<>>
     IN h' = [h EXCEPT !.ei = h.ei + 1, !.pc = GitNextEntry,
                       !.calls = h.calls \o [i \in 1..Len(made) |-> [call |-> made[i], dir |-> h.worktree]],
                       !.warnings = IF made # <<>> /\ h.failing \in Range(made) THEN h.warnings + 1
                                    ELSE h.warnings]
  /\ UNCHANGED mainVars

NextGit ==
  \/ DetectLocalDevelopment
  \/ CloneWorktree
  \/ SkipInvalidEntry
  \/ SkipMissingWorktree
  \/ UpdateWorktree

SpecGit == InitGit /\ [][NextGit]_vars

(***************************************************************************)
(* SpecClone: the origins that come without a worktree.  The decision      *)
(* phase looks for a worktree of the origin in the collector cache and     *)
(* clones one when there is none; the population phase resolves the        *)
(* worktree of each entry recorded on that path from the listing of the    *)
(* collector cache.  Names are sequences of tokens ("/" and "-" and "@"    *)
(* are tokens of their own).                                               *)
(***************************************************************************)
\* String.prototype.toLowerCase
toLowerCase(name) == [i \in 1..Len(name) |-> IF name[i] = "Repo" THEN "repo" ELSE name[i]]

\* String.prototype.lastIndexOf, 0 when there is none (-1 in JS)
lastIndexOf(name, token) ==
  IF token \in Range(name) THEN CHOOSE i \in 1..Len(name) : name[i] = token /\ \A j \in (i + 1)..Len(name) : name[j] # token
  ELSE 0

\* path.basename(p, ext)
basename(p, ext) ==
  LET trimmed == IF p # <<>> /\ Last(p) = "/" THEN Front(p) ELSE p
      base == SubSeq(trimmed, lastIndexOf(trimmed, "/") + 1, Len(trimmed))
  IN IF Len(base) > 1 /\ Last(base) = ext THEN Front(base) ELSE base

\* refname.replace(/[/]/g, '-')
replaceSlashes(refname) == [i \in 1..Len(refname) |-> IF refname[i] = "/" THEN "-" ELSE refname[i]]

\* '@' + refname.replace(/[/]/g, '-')
refnameQualifier(refname) == <<"@">> \o replaceSlashes(refname)

\* normalizedUrl.replace(/(?:[/]?\.git|[/])$/, '')
stripGitSuffix(url) ==
  IF url # <<>> /\ Last(url) = ".git"
    THEN IF Len(url) > 1 /\ url[Len(url) - 1] = "/" THEN SubSeq(url, 1, Len(url) - 2) ELSE Front(url)
  ELSE IF url # <<>> /\ Last(url) = "/" THEN Front(url)
  ELSE url

\* crypto.createHash('sha1').update(normalizedUrl).digest('hex'): one digest
\* for each normalised url
sha1(normalizedUrl) == IF "repo" \in Range(normalizedUrl) THEN "1a" ELSE "2b"

\* slice(start, end) with the negative index JS gives lastIndexOf's -1
sliceBefore(name, idx) == IF idx = 0 THEN Front(name) ELSE SubSeq(name, 1, idx - 1)

sliceFrom(name, idx) == IF idx = 0 THEN <<Last(name)>> ELSE SubSeq(name, idx, Len(name))

\* generateWorktreeFolderName(origin, true)
generateWorktreeFolderName(origin) ==
  IF origin.worktree = "undefined"
    THEN LET folderName == basename(origin.gitdir, ".git")
             lastHyphenIdx == lastIndexOf(folderName, "-")
         IN sliceBefore(folderName, lastHyphenIdx) \o refnameQualifier(origin.refname)
              \o sliceFrom(folderName, lastHyphenIdx)
  ELSE LET normalizedUrl == stripGitSuffix(toLowerCase(origin.url))
       IN basename(normalizedUrl, "") \o refnameQualifier(origin.refname) \o <<"-", sha1(normalizedUrl)>>

\* `${repoName}@${refname}-` with repoName = path.basename(url, '.git')
worktreePrefix(origin) == basename(origin.url, ".git") \o <<"@">> \o origin.refname \o <<"-">>

\* e.startsWith(prefix)
startsWith(e, prefix) == IsPrefix(prefix, e)

\* code-unit order of the tokens
TokenRank(token) ==
  CASE token = "-" -> 1
    [] token = "/" -> 2
    [] token = "1a" -> 3
    [] token = "2b" -> 4
    [] token = "@" -> 5
    [] token = "Repo" -> 6
    [] token = "feature" -> 7
    [] token = "main" -> 8
    [] token = "repo" -> 9
    [] OTHER -> 10

RECURSIVE NameBefore(_, _)
NameBefore(a, b) ==
  IF a = <<>> THEN b # <<>>
  ELSE IF b = <<>> THEN FALSE
  ELSE IF Head(a) = Head(b) THEN NameBefore(Tail(a), Tail(b))
  ELSE TokenRank(Head(a)) < TokenRank(Head(b))

\* fs.readdirSync(collectorCacheDir): the names in the directory, in order
listCollectorCache(names) ==
  CHOOSE s \in [1..Cardinality(names) -> names] :
    \A i, j \in 1..Cardinality(names) : i < j => NameBefore(s[i], s[j])

\* entries.filter((e) => e.startsWith(worktreePrefix)), and the last match
matchingEntries(names, prefix) == SelectSeq(listCollectorCache(names), LAMBDA e : startsWith(e, prefix))

NoWorktree == <<>>

findWorktree(names, prefix) ==
  LET matching == matchingEntries(names, prefix)
  IN IF Len(matching) > 0 THEN Last(matching) ELSE NoWorktree

CloneUrls == {<<"https://host", "/", "repo", ".git">>, <<"https://host", "/", "Repo", ".git">>, <<"https://host", "/", "repo">>}

CloneRefnames == {<<"main">>, <<"main", "-", "x">>, <<"feature", "/", "x">>}

\* the bare clone of the url in the content cache: <name>-<digest>.git
ContentGitdir(url) ==
  LET normalizedUrl == stripGitSuffix(toLowerCase(url))
  IN <<"content", "/">> \o basename(normalizedUrl, "") \o <<"-", sha1(normalizedUrl), ".git">>

\* origins without a worktree: of a remote repository (worktree undefined) or
\* of a local one whose ref is not checked out
CloneOrigins ==
  {[url |-> url, gitdir |-> ContentGitdir(url), refname |-> refname, worktree |-> kind] :
     url \in CloneUrls, refname \in CloneRefnames, kind \in {"undefined", "null"}}

\* worktrees left in the collector cache by an earlier build
EarlierWorktrees == {{}, {<<"repo", "@", "main", "-", "x", "-", "1a">>}, {<<"other", "@", "main", "-", "2b">>}}

InitClone ==
  /\ MainOff
  /\ \E origins \in SeqsUpTo(CloneOrigins, MaxRuns) \ {<<>>}, names \in EarlierWorktrees, cloneThrows \in BOOLEAN :
       h = [pc |-> "decide", origins |-> origins, names |-> names, cloneThrows |-> cloneThrows,
            oi |-> 1, cloned |-> <<>>, cacheEntries |-> <<>>, pi |-> 1, resolved |-> <<>>]

CloneNextOrigin == IF h.oi = Len(h.origins) THEN "populate" ELSE "decide"

\* a worktree of the origin is in the collector cache: origin.worktree is set
\* and the entry is evaluated and recorded with that worktree
UseFoundWorktree ==
  /\ h.pc = "decide"
  /\ LET found == findWorktree(h.names, worktreePrefix(h.origins[h.oi]))
     IN /\ found # NoWorktree
        /\ h' = [h EXCEPT !.oi = h.oi + 1, !.pc = CloneNextOrigin,
                          !.cloned = Append(h.cloned, NoWorktree),
                          !.cacheEntries = Append(h.cacheEntries,
                             [origin |-> h.oi, worktree |-> found, worktreePrefix |-> <<>>])]
  /\ UNCHANGED mainVars

\* none is there: git.clone into the generated folder, and the entry is
\* scheduled and recorded with the prefix, without a worktree
CloneOrigin ==
  /\ h.pc = "decide"
  /\ findWorktree(h.names, worktreePrefix(h.origins[h.oi])) = NoWorktree
  /\ ~(h.cloneThrows /\ h.oi = 1)
  /\ LET worktreeDirName == generateWorktreeFolderName(h.origins[h.oi])
     IN h' = [h EXCEPT !.oi = h.oi + 1, !.pc = CloneNextOrigin,
                       !.names = h.names \cup {worktreeDirName},
                       !.cloned = Append(h.cloned, worktreeDirName),
                       !.cacheEntries = Append(h.cacheEntries,
                          [origin |-> h.oi, worktree |-> NoWorktree,
                           worktreePrefix |-> worktreePrefix(h.origins[h.oi])])]
  /\ UNCHANGED mainVars

\* git.clone throws: logger.error('Failed to create worktree'), continue
CloneFails ==
  /\ h.pc = "decide"
  /\ findWorktree(h.names, worktreePrefix(h.origins[h.oi])) = NoWorktree
  /\ h.cloneThrows /\ h.oi = 1
  /\ h' = [h EXCEPT !.oi = h.oi + 1, !.pc = CloneNextOrigin, !.cloned = Append(h.cloned, NoWorktree)]
  /\ UNCHANGED mainVars

\* beforePublish: the worktree of the next recorded entry
ResolveWorktree ==
  /\ h.pc = "populate"
  /\ h.pi <= Len(h.cacheEntries)
  /\ LET entry == h.cacheEntries[h.pi]
         worktree == IF entry.worktree # NoWorktree THEN entry.worktree
                     ELSE findWorktree(h.names, entry.worktreePrefix)
     IN h' = [h EXCEPT !.pi = h.pi + 1, !.resolved = Append(h.resolved, worktree)]
  /\ UNCHANGED mainVars

NextClone ==
  \/ UseFoundWorktree
  \/ CloneOrigin
  \/ CloneFails
  \/ ResolveWorktree

SpecClone == InitClone /\ [][NextClone]_vars

(***************************************************************************)
(* Spec: host processes run one after another against one cache store.     *)
(* A process evaluates every entry (contentAggregated), lets the collector *)
(* run what was scheduled, and updates the cache (beforePublish).  Between *)
(* processes sources are edited and stored outputs are damaged.            *)
(***************************************************************************)
HarnessOff == [pc |-> "off"]

MissingFiles == [p \in SourceNames |-> 0]

\* the source files a process sees in a worktree
FilesOf(srcX, wtX, w) == IF existsSync(wtX[w], <<>>) THEN srcX[w] ELSE MissingFiles

WorktreeRoot == [p \in {<<>>} |-> DirNode]

Init ==
  /\ h = HarnessOff
  /\ \E f \in Scenarios :
       /\ cfg = ConfigOf(f)
       /\ src = [w \in Worktrees |->
                   [p \in SourceNames |->
                      IF p = "src/gen.c" /\ f.genMissing THEN 0
                      ELSE IF p = "src/main.c" /\ w = "w1" /\ f.sourceIsDirectory THEN Directory
                      ELSE 1]]
       /\ wt = [w \in Worktrees |->
                   IF w = "w1" /\ f.worktreeMissing THEN EmptyTree ELSE WorktreeRoot]
  /\ force = FALSE
  /\ dryRun = FALSE
  /\ cmdFails = FALSE
  /\ ptr = EmptyMap
  /\ out = EmptyMap
  /\ clock = 0
  /\ pc = "idle"
  /\ oi = 0
  /\ ei = 0
  /\ bi = 0
  /\ pi = 0
  /\ collector = [i \in 1..Len(cfg) |-> <<>>]
  /\ cacheEntries = <<>>
  /\ log = <<>>
  /\ runs = 0
  /\ edits = 0

HasCommands == \E i \in 1..Len(cfg) : \E j \in 1..Len(cfg[i].cacheConfig.entries) :
                 Len(cfg[i].cacheConfig.entries[j].run.sourceCommands) > 0

\* A host process starts: register() gives it an empty cacheEntries list, the
\* content aggregate is fresh, the environment variables are read.  MaxRuns
\* bounds the processes that go on to build; the clock is read only where a
\* pointer file is written, which a DRY_RUN process never reaches.
StartRun ==
  /\ pc = "idle"
  /\ runs < MaxRuns
  /\ force' \in BOOLEAN
  /\ dryRun' \in BOOLEAN
  /\ cmdFails' \in IF HasCommands THEN BOOLEAN ELSE {FALSE}
  /\ pc' = "decide"
  /\ oi' = 1
  /\ ei' = 1
  /\ collector' = [i \in 1..Len(cfg) |-> cfg[i].collector]
  /\ cacheEntries' = <<>>
  /\ log' = <<>>
  /\ runs' = IF dryRun' THEN runs ELSE runs + 1
  /\ clock' = IF dryRun' THEN clock ELSE clock + 1
  /\ UNCHANGED <<h, cfg, src, wt, ptr, out, bi, pi, edits>>

CurrentOrigin == cfg[oi]

CurrentEntry == CurrentOrigin.cacheConfig.entries[ei]

LastEntry == oi = Len(cfg) /\ ei = Len(CurrentOrigin.cacheConfig.entries)

\* logger.warn('Skipping invalid entry (missing run.key, run.sources, or run.cachedir)')
InvalidWarning(entry) == [level |-> "warn", msg |-> "invalid entry", a |-> entry.run.key, b |-> ""]

\* a handler that returns to the host whatever DRY_RUN says
AfterLastEntryIgnoresDryRun(dry) == "build"

\* if (dryRun) { ...; process.exit(0) }: where the process goes after the loops
AfterLastEntry(dry) == IF dry THEN "exit" ELSE "build"

\* contentAggregated: one iteration of the loop over the entries of an origin;
\* after the last entry of the last origin a dry run exits the process.
DecideEntry ==
  /\ pc = "decide"
  /\ IF IsInvalidEntry(CurrentEntry)
       THEN /\ log' = Append(log, InvalidWarning(CurrentEntry))
            /\ UNCHANGED <<collector, cacheEntries, wt, out>>
       ELSE LET w == CurrentOrigin.worktree
                r == Evaluate(CurrentOrigin, CurrentEntry, force, wt[w], FilesOf(src, wt, w),
                              cmdFails, ptr, out)
            IN /\ log' = log \o r.logs
               /\ collector' = [collector EXCEPT ![oi] = @ \o r.push]
               /\ cacheEntries' = cacheEntries \o r.track
               /\ wt' = [wt EXCEPT ![w] = r.worktree]
               /\ out' = IF r.decision = "HIT"
                            THEN StoreAfterRestore(CurrentOrigin, CurrentEntry, wt[w], out,
                                                   r.restoredFrom)
                            ELSE out
  /\ IF LastEntry
       THEN /\ pc' = AfterLastEntry(dryRun)
            /\ oi' = 0
            /\ ei' = 0
            /\ bi' = 1
       ELSE /\ pc' = pc
            /\ oi' = IF ei = Len(CurrentOrigin.cacheConfig.entries) THEN oi + 1 ELSE oi
            /\ ei' = IF ei = Len(CurrentOrigin.cacheConfig.entries) THEN 1 ELSE ei + 1
            /\ bi' = bi
  /\ UNCHANGED <<h, cfg, force, dryRun, src, cmdFails, ptr, clock, pi, runs, edits>>

\* the items the collector runs, origin after origin, each with its worktree
RECURSIVE ScheduledFrom(_)
ScheduledFrom(i) ==
  IF i > Len(cfg) THEN <<>>
  ELSE [k \in 1..Len(collector[i]) |-> [worktree |-> cfg[i].worktree, item |-> collector[i][k]]]
       \o ScheduledFrom(i + 1)

Scheduled == ScheduledFrom(1)

\* what a build command leaves under <worktree>/<cacheDir>
BuildShapes == {"nothing", "files", "hollow"}

Deposit(tree, dir, shape, stamp) ==
  LET root == mkdirSync(tree, <<>>)
      clean == mkdirSync(rmSync(root, dir), dir)
      hollow == writeNode(mkdirSync(clean, dir \o <<"sub">>), dir \o <<"latest">>, LinkNode)
  IN IF shape = "nothing" THEN root
     ELSE IF shape = "hollow" THEN hollow
     ELSE writeNode(writeNode(hollow, dir \o <<"index.html">>, FileNode(stamp)),
                    dir \o <<"sub", "page.html">>, FileNode(stamp))

\* The collector (a collaborator) runs one scheduled item in its worktree, which it
\* creates when it is missing.  A command that does anything also generates the
\* generated source when that is missing.
RunCollectorItem ==
  /\ pc = "build"
  /\ bi <= Len(Scheduled)
  /\ LET w == Scheduled[bi].worktree
         run == Scheduled[bi].item.run
     IN IF run.command = "true" \/ run = HostRun
          THEN UNCHANGED <<src, wt>>
          ELSE \E shape \in BuildShapes :
                 /\ wt' = [wt EXCEPT ![w] = Deposit(wt[w], run.cacheDir, shape, runs)]
                 /\ src' = IF shape # "nothing" /\ src[w]["src/gen.c"] = 0
                             THEN [src EXCEPT ![w]["src/gen.c"] = 1]
                             ELSE src
  /\ bi' = bi + 1
  /\ UNCHANGED <<h, cfg, force, dryRun, cmdFails, ptr, out, clock, pc, oi, ei, pi,
                 collector, cacheEntries, log, runs, edits>>

\* the collector is done, the site is about to be published
FinishBuild ==
  /\ pc = "build"
  /\ bi > Len(Scheduled)
  /\ pc' = "publish"
  /\ pi' = 1
  /\ UNCHANGED <<h, cfg, force, dryRun, src, wt, cmdFails, ptr, out, clock, oi, ei, bi,
                 collector, cacheEntries, log, runs, edits>>

\* beforePublish: one iteration of the loop over cacheEntries
PopulateEntry ==
  /\ pc = "publish"
  /\ pi <= Len(cacheEntries)
  /\ LET entry == cacheEntries[pi]
         r == Populate(entry, wt[entry.worktree], FilesOf(src, wt, entry.worktree),
                       cmdFails, ptr, out, clock)
     IN /\ ptr' = r.ptr
        /\ out' = r.out
        /\ log' = log \o r.logs
  /\ pi' = pi + 1
  /\ UNCHANGED <<h, cfg, force, dryRun, src, wt, cmdFails, clock, pc, oi, ei, bi,
                 collector, cacheEntries, runs, edits>>

\* beforePublish has returned (or the dry run has called process.exit(0)): the
\* process ends and what it held in memory is gone
ExitProcess ==
  /\ pc \in {"publish", "exit"}
  /\ pc = "publish" => pi > Len(cacheEntries)
  /\ pc' = "idle"
  /\ force' = FALSE
  /\ dryRun' = FALSE
  /\ cmdFails' = FALSE
  /\ oi' = 0
  /\ ei' = 0
  /\ bi' = 0
  /\ pi' = 0
  /\ collector' = [i \in 1..Len(cfg) |-> <<>>]
  /\ cacheEntries' = <<>>
  /\ log' = <<>>
  /\ UNCHANGED <<h, cfg, src, wt, ptr, out, clock, runs, edits>>

\* the sources the entries of the configuration hash
DeclaredSources ==
  UNION {Range(cfg[1].cacheConfig.entries[j].run.sources) : j \in 1..Len(cfg[1].cacheConfig.entries)}
  \cup (IF HasCommands THEN {"src/gen.c"} ELSE {})

\* Between two processes a source file of a worktree is changed.
EditSource ==
  /\ pc = "idle"
  /\ runs > 0
  /\ runs < MaxRuns
  /\ edits < MaxEdits
  /\ \E w \in {cfg[i].worktree : i \in 1..Len(cfg)} : \E p \in DeclaredSources : \E c \in 1..MaxContent :
       /\ src[w][p] \notin {0, c, Directory}
       /\ src' = [src EXCEPT ![w][p] = c]
  /\ edits' = edits + 1
  /\ UNCHANGED <<h, cfg, force, dryRun, wt, cmdFails, ptr, out, clock, pc, oi, ei, bi, pi,
                 collector, cacheEntries, log, runs>>

\* what is left of a stored output directory that was damaged from outside
DamageKinds == {"deleted", "emptied", "empty subdirectories", "plain file", "unreadable"}

Damaged(tree, dir, kind) ==
  IF kind = "deleted" THEN rmSync(tree, dir)
  ELSE IF kind = "emptied" THEN mkdirSync(rmSync(tree, dir), dir)
  ELSE IF kind = "empty subdirectories" THEN mkdirSync(rmSync(tree, dir), dir \o <<"sub", "deeper">>)
  ELSE IF kind = "unreadable" THEN writeNode(tree, dir, LockedDirNode)
  ELSE writeNode(rmSync(tree, dir), dir, FileNode(1))

\* Between two processes a stored output directory is deleted, emptied, or replaced.
DamageStoredOutput ==
  /\ pc = "idle"
  /\ runs < MaxRuns
  /\ edits < MaxEdits
  /\ \E k \in DOMAIN out : \E dir \in {p \in DOMAIN out[k] : Len(p) = 1} : \E kind \in DamageKinds :
       /\ checkOutputsExist(out[k], dir)
       /\ out' = [out EXCEPT ![k] = Damaged(out[k], dir, kind)]
  /\ edits' = edits + 1
  /\ UNCHANGED <<h, cfg, force, dryRun, src, wt, cmdFails, ptr, clock, pc, oi, ei, bi, pi,
                 collector, cacheEntries, log, runs>>

\* Between two processes a pointer file is truncated: it is still there, but its
\* text is no longer JSON.
CorruptPointer ==
  /\ pc = "idle"
  /\ runs < MaxRuns
  /\ edits < MaxEdits
  /\ \E k \in DOMAIN ptr :
       /\ ptr[k].wellFormed
       /\ ptr' = [ptr EXCEPT ![k].wellFormed = FALSE]
  /\ edits' = edits + 1
  /\ UNCHANGED <<h, cfg, force, dryRun, src, wt, cmdFails, out, clock, pc, oi, ei, bi, pi,
                 collector, cacheEntries, log, runs>>

Next ==
  \/ StartRun
  \/ DecideEntry
  \/ RunCollectorItem
  \/ FinishBuild
  \/ PopulateEntry
  \/ ExitProcess
  \/ EditSource
  \/ DamageStoredOutput
  \/ CorruptPointer

Spec == Init /\ [][Next]_vars

(***************************************************************************)
(* Properties of the hashing utilities (SpecHash)                          *)
(***************************************************************************)
HashDone == h.pc \in {"hashed", "fingerprinted"}

MissingPositions == {i \in 1..Len(h.sources) : h.files[h.sources[i]] = 0}

\* C7: computeHashes returns null whenever at least one listed path is missing,
\* wherever it stands in the list and however many other paths exist, and
\* otherwise a map holding exactly one digest for each listed path (the digest
\* of that file), never a partial map.
AllOrNothingHashing ==
  HashDone =>
    /\ (MissingPositions # {} => h.hashes = NULL)
    /\ (MissingPositions = {} =>
          /\ h.hashes # NULL
          /\ Range(h.hashes.keys) = Range(h.sources)
          /\ Len(h.hashes.keys) = Cardinality(Range(h.sources))
          /\ DOMAIN h.hashes.val = Range(h.sources)
          /\ \A p \in Range(h.sources) : h.hashes.val[p] = computeHash(h.files[p]))

\* two existing paths followed by a missing one: the result is null
AllOrNothingWitness ==
  /\ h.pc = "hashed"
  /\ Len(h.sources) = 3
  /\ MissingPositions = {3}
  /\ h.sources[1] # h.sources[2]
  /\ h.hashes = NULL

PermutedSeqs(s) == {[i \in 1..Len(s) |-> s[f[i]]] : f \in Permutations(1..Len(s))}

\* C8: the fingerprint is the same for every insertion order of the same
\* path-to-digest map, and for every order in which the same sources are listed.
FingerprintDeterminism ==
  h.pc = "fingerprinted" =>
    /\ \A ks \in PermutedSeqs(h.hashes.keys) :
         computeContentHash([keys |-> ks, val |-> h.hashes.val]) = h.contentHash
    /\ \A ss \in PermutedSeqs(h.sources) :
         computeContentHash(computeHashes(h.files, ss)) = h.contentHash

\* three files of which two differ in content, inserted in an order that is not sorted
FingerprintDeterminismWitness ==
  /\ h.pc = "fingerprinted"
  /\ h.hashes.keys = <<"src/main.c", "lib/helper.c", "src/gen.c">>
  /\ h.hashes.val["src/main.c"] # h.hashes.val["lib/helper.c"]

(***************************************************************************)
(* Properties of the dependency resolver (SpecDeps)                        *)
(***************************************************************************)
\* keys of the invocations in progress, the requested entry first
DepPath == [i \in 1..Len(h.stack) |-> h.stack[i].key]

PathVisitsKeyOnce ==
  h.pc = "resolving" => \A i, j \in 1..Len(h.stack) : i # j => DepPath[i] # DepPath[j]

CircularCount(ws) == Cardinality({i \in 1..Len(ws) : ws[i].msg = "circular"})

\* an examined edge that leads back to a key on the current path appends exactly one
\* circular-dependency warning naming the edge and is not followed; nothing else
\* produces such a warning
BackEdgeDiagnosedOnce ==
  IF DepRunning /\ DepKey \in Range(DepPath)
    THEN /\ h'.warnings = Append(h.warnings, CircularWarning(DepTop.key, DepKey))
         /\ Len(h'.stack) = Len(h.stack)
    ELSE CircularCount(h'.warnings) = CircularCount(h.warnings)

\* C10: on every registry, cyclic or not, resolveDependencySources returns (it never
\* loops and no step fails), no key is on the current path twice, and each
\* traversed edge back to a key on the path yields exactly one circular diagnostic.
CycleTermination ==
  /\ []PathVisitsKeyOnce
  /\ [][BackEdgeDiagnosedOnce]_vars
  /\ <>(h.pc = "done")

\* a -> b -> a resolved: b was visited, the edge b -> a was reported once
CycleTerminationWitness ==
  /\ h.pc = "done"
  /\ "b" \in DOMAIN h.entriesMap
  /\ h.entriesMap["a"].dependsOn = <<"b">>
  /\ h.entriesMap["b"].dependsOn = <<"a">>
  /\ h.result.warnings = <<CircularWarning("b", "a")>>
  /\ h.result.sources = <<"lib/helper.c">>

(***************************************************************************)
(* Properties of the decision and population phases (Spec)                 *)
(***************************************************************************)
\* a DecideEntry step is about to evaluate a valid entry
Deciding == pc = "decide" /\ ~IsInvalidEntry(CurrentEntry)

DecidingFiles == FilesOf(src, wt, CurrentOrigin.worktree)

DecidingResolution == ResolveEntry(CurrentOrigin, CurrentEntry, DecidingFiles, cmdFails)

\* the worktree exists and every resolved source exists and is read
SourcesResolved ==
  /\ existsSync(wt[CurrentOrigin.worktree], <<>>)
  /\ ~readFileSyncThrows(DecidingFiles, DecidingResolution.resolvedSources)
  /\ DecidingResolution.sourceHashes # NULL

DecidingFingerprint == computeContentHash(DecidingResolution.sourceHashes)

DecidingPointerPath ==
  PointerPath(ComponentHashDir(CacheRoot(CurrentOrigin.cacheConfig), CurrentOrigin.name),
              CurrentEntry.run.key, DecidingFingerprint)

\* a pointer record loads for (component, key, fingerprint)
PointerLoads == DecidingPointerPath \in DOMAIN ptr /\ ptr[DecidingPointerPath].wellFormed

\* cacheRoot/outputs/<pointer.outputDir> as a tree
StoredOutputTree ==
  OutTree(out, CacheRoot(CurrentOrigin.cacheConfig), JSONparse(ptr[DecidingPointerPath]).outputDir)

\* every stored output directory can be listed (and so removed and replaced)
StoreReadable == \A k \in DOMAIN out : \A p \in DOMAIN out[k] : out[k][p].type # "locked"

\* the line the step logs last: the decision
DecisionMade == log'[Len(log')]

\* what the step appends to the collector list of the origin
Appended == SubSeq(collector'[oi], Len(collector[oi]) + 1, Len(collector'[oi]))

\* C1: for a valid entry whose worktree exists and whose resolved sources all
\* exist, the decision is HIT exactly when the force signal is off, a pointer
\* record loads for (component, key, fingerprint) and the stored output directory
\* cacheRoot/outputs/<pointer.outputDir>/<cacheDir> passes the existence check;
\* otherwise it is MISS.
HitIffPointerAndOutput ==
  [][(Deciding /\ SourcesResolved) =>
       /\ DecisionMade.msg \in {"HIT", "MISS"}
       /\ DecisionMade.a = CurrentEntry.run.key
       /\ DecisionMade.contentHash = DecidingFingerprint
       /\ DecisionMade.msg = "HIT" <=>
            /\ ~force
            /\ PointerLoads
            /\ checkOutputsExist(StoredOutputTree, CurrentEntry.run.cacheDir)]_vars

\* a HIT has been decided in the running process
HitIffPointerAndOutputWitness ==
  \E i \in 1..Len(log) : log[i].msg = "HIT" /\ log[i].contentHash # NullHash

\* the stored output directory is gone, is empty, holds only empty
\* subdirectories, or is a plain file
StoredOutputDamaged(t, dir) ==
  \/ dir \notin DOMAIN t
  \/ t[dir].type = "file"
  \/ /\ t[dir].type = "dir"
     /\ \A p \in DOMAIN t : (IsPrefix(dir, p) /\ p # dir) => t[p].type = "dir"

\* C3: with the force signal off, when a pointer record exists for the computed
\* fingerprint but the stored output directory has been deleted, is empty,
\* contains only empty subdirectories or is a plain file, the decision is MISS
\* with reason 'cached outputs missing', never HIT.
DamagedOutputIsMiss ==
  [][(/\ Deciding
      /\ SourcesResolved
      /\ ~force
      /\ PointerLoads
      /\ StoredOutputDamaged(StoredOutputTree, CurrentEntry.run.cacheDir)) =>
       /\ DecisionMade.msg = "MISS"
       /\ DecisionMade.b = "cached outputs missing"]_vars

\* a decision found the pointer but a plain file where the stored output was
DamagedOutputIsMissWitness ==
  /\ edits > 0
  /\ \E i \in 1..Len(log) : \E k \in DOMAIN out :
       /\ log[i].msg = "MISS"
       /\ log[i].b = "cached outputs missing"
       /\ k[2] = log[i].contentHash
       /\ \E dir \in DOMAIN out[k] : Len(dir) = 1 /\ out[k][dir].type = "file"

\* C5: on HIT the build command of the entry is not appended to the collector
\* list: a no-op command with the rewritten scan is, or nothing when the entry
\* has no scan; on every MISS the original run and scan of the entry are.
HitSchedulesNoBuild ==
  [][Deciding =>
       /\ \A i \in 1..Len(cfg) : i # oi => collector'[i] = collector[i]
       /\ DecisionMade.msg = "HIT" =>
            /\ \A k \in 1..Len(Appended) : Appended[k].run.command # CurrentEntry.run.command
            /\ IF CurrentEntry.scan = ScanAbsent
                 THEN Appended = <<>>
                 ELSE /\ Len(Appended) = 1
                      /\ Appended[1].run = [command |-> "true"]
                      /\ Len(Appended[1].scan.items) = Len(CurrentEntry.scan.items)
                      /\ \A k \in 1..Len(CurrentEntry.scan.items) :
                           /\ Appended[1].scan.items[k].dir =
                                [base |-> CacheRoot(CurrentOrigin.cacheConfig),
                                 fp |-> DecisionMade.contentHash,
                                 path |-> CurrentEntry.scan.items[k].dir.path]
                           /\ Appended[1].scan.items[k].files = CurrentEntry.scan.items[k].files
                           /\ Appended[1].scan.items[k].into = CurrentEntry.scan.items[k].into
       /\ DecisionMade.msg = "MISS" =>
            Appended = <<[run |-> CurrentEntry.run, scan |-> CurrentEntry.scan]>>]_vars

\* a HIT left a no-op item on a collector list, and a MISS the original run
HitSchedulesNoBuildWitness ==
  /\ \E i \in 1..Len(collector) : \E k \in 1..Len(collector[i]) :
       collector[i][k].run.command = "true"
  /\ \E i \in 1..Len(collector) : \E k \in 1..Len(collector[i]) :
       collector[i][k].run.command = "make main"

\* a PopulateEntry step is about to handle an entry
Populating == pc = "publish" /\ pi <= Len(cacheEntries)

PopulatedEntry == cacheEntries[pi]

\* the origin that owns a worktree, and its entry with a key
OriginOf(w) == cfg[CHOOSE i \in 1..Len(cfg) : cfg[i].worktree = w]

EntryOf(o, key) ==
  o.cacheConfig.entries[CHOOSE j \in 1..Len(o.cacheConfig.entries) :
                          o.cacheConfig.entries[j].run.key = key]

\* the paths at or below dir that a copy carries over: directories and regular
\* files that are not reached through a symbolic link
RegularUnder(t, dir) ==
  {p \in DOMAIN t : /\ IsPrefix(dir, p)
                    /\ \A q \in Prefixes(p) : IsPrefix(dir, q) => t[q].type # "link"}

\* C4: with the force signal on, the decision for a valid entry with resolvable
\* sources is MISS with a reason naming the override, whatever pointer and stored
\* output are present, and the entry is recorded for population; population then
\* rewrites the pointer record and, where a stored output for the fingerprint
\* exists (and can be listed) and the build left its output directory, replaces
\* the stored output by the copy of the build output.
ForceOverride ==
  /\ [][(Deciding /\ SourcesResolved /\ force) =>
          /\ DecisionMade.msg = "MISS"
          /\ DecisionMade.b = "FORCE_COLLECTOR=true"
          /\ Len(cacheEntries') = Len(cacheEntries) + 1
          /\ cacheEntries'[Len(cacheEntries')].key = CurrentEntry.run.key
          /\ cacheEntries'[Len(cacheEntries')].worktree = CurrentOrigin.worktree
          /\ cacheEntries'[Len(cacheEntries')].contentHash = DecidingFingerprint]_vars
  /\ [][(Populating /\ force /\ PopulatedEntry.sourceHashes # NULL) =>
          LET e == PopulatedEntry
              root == e.componentHashDir.root
              built == wt[e.worktree]
              before == OutTree(out, root, e.contentHash)
              after == OutTree(out', root, e.contentHash)
          IN /\ loadPointerFile(ptr', PointerPath(e.componentHashDir, e.key, e.contentHash)) =
                  [outputDir |-> e.contentHash, scanDir |-> e.outputDir,
                   sources |-> e.sourceHashes, timestamp |-> clock]
             /\ (/\ existsSync(before, e.outputDir)
                 /\ StoreReadable
                 /\ existsSync(built, e.outputDir)) =>
                  \A p \in {q \in DOMAIN before \cup DOMAIN after \cup DOMAIN built :
                              IsPrefix(e.outputDir, q)} :
                    /\ p \in DOMAIN after <=> p \in RegularUnder(built, e.outputDir)
                    /\ p \in DOMAIN after => after[p] = built[p]]_vars

\* a forced MISS was decided while the pointer of an earlier process and a stored
\* output that passes the existence check were both there
ForceOverrideWitness ==
  /\ force
  /\ pc = "build"
  /\ \E i \in 1..Len(log) : \E k \in DOMAIN ptr :
       /\ log[i].msg = "MISS"
       /\ log[i].b = "FORCE_COLLECTOR=true"
       /\ k[4] = log[i].contentHash
       /\ k[3] = log[i].a
       /\ JSONparse(ptr[k]).timestamp < clock
       /\ checkOutputsExist(OutTree(out, k[1], JSONparse(ptr[k]).outputDir),
                            JSONparse(ptr[k]).scanDir)

\* C2: round trip.  When population handles an entry that was decided MISS and
\* whose build left at least one regular file under <worktree>/<cacheDir>, the
\* next decision for that entry, with the sources as they are and the force
\* signal off, is HIT.
RoundTrip ==
  [][(Populating /\ checkOutputsExist(wt[PopulatedEntry.worktree], PopulatedEntry.outputDir)) =>
       LET e == PopulatedEntry
           o == OriginOf(e.worktree)
       IN Evaluate(o, EntryOf(o, e.key), FALSE, wt[e.worktree], FilesOf(src, wt, e.worktree),
                   cmdFails, ptr', out').decision = "HIT"]_vars

\* every origin uses the default cache directory
DefaultRoot == \A i \in 1..Len(cfg) : CacheRoot(cfg[i].cacheConfig) = DEFAULT_CACHE_DIR

\* The round trip where decision and population agree on the cache root and on
\* the source set: the default cache directory, and an entry that was hashed when
\* it was decided or has no dependsOn; the stored outputs can be listed.
RoundTripWhereRootAndSourcesAgree ==
  [][(/\ Populating
      /\ DefaultRoot
      /\ StoreReadable
      /\ PopulatedEntry.sourceHashes = NULL =>
            EntryOf(OriginOf(PopulatedEntry.worktree), PopulatedEntry.key).run.dependsOn = <<>>
      /\ checkOutputsExist(wt[PopulatedEntry.worktree], PopulatedEntry.outputDir)) =>
       LET e == PopulatedEntry
           o == OriginOf(e.worktree)
       IN Evaluate(o, EntryOf(o, e.key), FALSE, wt[e.worktree], FilesOf(src, wt, e.worktree),
                   cmdFails, ptr', out').decision = "HIT"]_vars

\* C6: deduplication across versions.  When population has stored the output of
\* an entry built in one origin, the decision for the entry with the same key in
\* another origin whose source files have the same content computes the same
\* fingerprint, is HIT, and scans the same stored output directory.
DeduplicationAcrossVersions ==
  [][(Populating /\ checkOutputsExist(wt[PopulatedEntry.worktree], PopulatedEntry.outputDir)) =>
       LET e == PopulatedEntry
           o == OriginOf(e.worktree)
           mine == Evaluate(o, EntryOf(o, e.key), FALSE, wt[e.worktree],
                            FilesOf(src, wt, e.worktree), cmdFails, ptr', out')
       IN \A i \in 1..Len(cfg) :
            (/\ cfg[i].worktree # e.worktree
             /\ cfg[i].name = o.name
             /\ existsSync(wt[cfg[i].worktree], <<>>)
             /\ src[cfg[i].worktree] = src[e.worktree]) =>
              LET theirs == Evaluate(cfg[i], EntryOf(cfg[i], e.key), FALSE, wt[cfg[i].worktree],
                                     FilesOf(src, wt, cfg[i].worktree), cmdFails, ptr', out')
              IN /\ theirs.contentHash = mine.contentHash
                 /\ theirs.decision = "HIT"
                 /\ \A k \in 1..Len(theirs.push) : \A j \in 1..Len(theirs.push[k].scan.items) :
                      theirs.push[k].scan.items[j].dir.fp = mine.contentHash]_vars

\* the entries reached from a set of keys through dependsOn, n levels deep
RECURSIVE DependencyClosure(_, _, _)
DependencyClosure(entriesMap, keys, n) ==
  IF n = 0 THEN keys
  ELSE DependencyClosure(
         entriesMap,
         keys \cup UNION {Range(entriesMap[k].dependsOn) \cap DOMAIN entriesMap : k \in keys},
         n - 1)

\* the sources of every entry the deciding entry depends on, directly or not
DependencySourcesOfDeciding ==
  LET entriesMap == buildEntriesMap(CurrentOrigin.cacheConfig.entries)
      direct == Range(CurrentEntry.run.dependsOn) \cap DOMAIN entriesMap
      all == DependencyClosure(entriesMap, direct, Cardinality(DOMAIN entriesMap))
  IN UNION {Range(entriesMap[k].sources) : k \in all}

\* C9: the source set hashed for an entry that lists another in dependsOn holds
\* its own sources and all sources of the entries it depends on, transitively; a
\* content change in any of the latter changes the fingerprint.
DependencyAwareFingerprint ==
  [][(/\ Deciding
      /\ existsSync(wt[CurrentOrigin.worktree], <<>>)
      /\ CurrentEntry.run.dependsOn # <<>>) =>
       /\ Range(CurrentEntry.run.sources) \cup DependencySourcesOfDeciding
            \subseteq Range(DecidingResolution.resolvedSources)
       /\ SourcesResolved =>
            /\ Range(CurrentEntry.run.sources) \cup DependencySourcesOfDeciding
                 \subseteq Range(DecisionMade.hashed.keys)
            /\ DecisionMade.contentHash = DecidingFingerprint
            /\ \A p \in DependencySourcesOfDeciding : \A c \in (1..MaxContent) \ {DecidingFiles[p]} :
                 computeContentHash(
                   ResolveEntry(CurrentOrigin, CurrentEntry, [DecidingFiles EXCEPT ![p] = c],
                                cmdFails).sourceHashes) # DecisionMade.contentHash]_vars

\* main is decided MISS for want of a cache entry although a pointer of main
\* records the same digest for src/main.c: lib/helper.c is what changed
DependencyAwareFingerprintWitness ==
  \E i \in 1..Len(log) : \E k \in DOMAIN ptr :
    /\ log[i].a = "main"
    /\ log[i].msg = "MISS"
    /\ log[i].b = "no cache entry"
    /\ k[3] = "main"
    /\ k[4] # log[i].contentHash
    /\ log[i].hashed # NULL
    /\ {"src/main.c", "lib/helper.c"} \subseteq DOMAIN log[i].hashed.val
    /\ {"src/main.c", "lib/helper.c"} \subseteq DOMAIN JSONparse(ptr[k]).sources.val
    /\ JSONparse(ptr[k]).sources.val["src/main.c"] = log[i].hashed.val["src/main.c"]
    /\ JSONparse(ptr[k]).sources.val["lib/helper.c"] # log[i].hashed.val["lib/helper.c"]

(***************************************************************************)
(* Properties of resolveSources (SpecSources)                              *)
(***************************************************************************)
\* the positions of the commands that exited with code 0
SucceededCommands == {i \in 1..Len(h.outcomes) : h.outcomes[i].status = "exit 0"}

\* the trimmed non-blank lines those commands printed
DiscoveredPaths ==
  UNION {{h.outcomes[i].stdout[n].text : n \in 1..Len(h.outcomes[i].stdout)} : i \in SucceededCommands}
  \ {""}

\* C11: resolveSources returns exactly the duplicate-free union of the static
\* sources and the trimmed non-blank lines printed by the commands that exited
\* with code 0; a command that exits non-zero or fails to spawn contributes
\* nothing, is reported by a warning naming it, and the commands after it still
\* run and contribute.
ResolvedIsUnionOfStaticAndDiscovered ==
  h.pc = "resolved" =>
    /\ Range(h.resolved.sources) = Range(h.staticSources) \cup DiscoveredPaths
    /\ \A i, j \in 1..Len(h.resolved.sources) :
         h.resolved.sources[i] = h.resolved.sources[j] => i = j
    /\ Len(h.resolved.warnings) = Len(h.outcomes) - Cardinality(SucceededCommands)
    /\ \A i \in (1..Len(h.outcomes)) \ SucceededCommands :
         \E w \in 1..Len(h.resolved.warnings) :
           /\ h.resolved.warnings[w].level = "warn"
           /\ h.resolved.warnings[w].b = h.sourceCommands[i]

\* the first command failed after printing a path, the second one succeeded and
\* its padded line is in the result, once, next to the static sources
ResolvedIsUnionWitness ==
  /\ h.pc = "resolved"
  /\ Len(h.outcomes) = 2
  /\ h.outcomes[1].status = "exit 1"
  /\ h.outcomes[1].stdout = <<[text |-> "src/gen.c", padded |-> FALSE]>>
  /\ h.outcomes[2].status = "exit 0"
  /\ h.outcomes[2].stdout = <<[text |-> "src/main.c", padded |-> FALSE]>>
  /\ h.staticSources = <<"src/main.c", "lib/helper.c">>
  /\ h.resolved.sources = <<"src/main.c", "lib/helper.c">>

(***************************************************************************)
(* Properties of error handling in the decision phase (Spec)               *)
(***************************************************************************)
\* a source-discovery command of the deciding entry (its own or one of a
\* dependency) fails in this process
DecidingCommandFails ==
  /\ existsSync(wt[CurrentOrigin.worktree], <<>>)
  /\ cmdFails
  /\ DecidingResolution.allSourceCommands # <<>>

\* a resolved source file of the deciding entry is missing
DecidingSourceMissing ==
  /\ existsSync(wt[CurrentOrigin.worktree], <<>>)
  /\ DecidingResolution.sourceHashes = NULL

\* the step goes on to the next entry of the batch, or ends the loop after the last
BatchContinues ==
  IF LastEntry
    THEN pc' \in {"build", "exit"}
    ELSE /\ pc' = "decide"
         /\ <<oi', ei'>> = IF ei = Len(CurrentOrigin.cacheConfig.entries)
                             THEN <<oi + 1, 1>> ELSE <<oi, ei + 1>>

\* C12: when a source-discovery command of an entry fails or one of its source
\* files is missing, the decision for the entry is MISS, and the remaining
\* entries of the batch are still evaluated.
ResolutionErrorsDegradeToMiss ==
  [][(Deciding /\ (DecidingCommandFails \/ DecidingSourceMissing)) =>
       /\ DecisionMade.msg = "MISS"
       /\ BatchContinues]_vars

\* The part of C12 about missing source files, and about the batch going on
\* whatever happens to an entry.
MissingSourceDegradesToMiss ==
  [][Deciding =>
       /\ DecidingSourceMissing =>
            DecisionMade.msg = "MISS" /\ DecisionMade.b = "sources not found"
       /\ BatchContinues]_vars

\* the entries of all origins, and the lines that close the evaluation of one
EntryCount ==
  LET RECURSIVE count(_)
      count(i) == IF i > Len(cfg) THEN 0 ELSE Len(cfg[i].cacheConfig.entries) + count(i + 1)
  IN count(1)

EvaluatedCount(lines) ==
  Len(SelectSeq(lines, LAMBDA line : line.msg \in {"HIT", "MISS", "ERROR", "invalid entry"}))

\* C13: with the dry-run signal on, every entry of every origin is evaluated,
\* process exit is requested only after the last decision, the build and the
\* population phase are never entered, and no pointer record or stored output is
\* created or changed.
DryRunOnlyDecides ==
  [][dryRun =>
       /\ pc' \notin {"build", "publish"}
       /\ (pc = "decide" /\ pc' = "exit") =>
            LastEntry /\ EvaluatedCount(log') = EntryCount
       /\ ptr' = ptr
       /\ out' = out]_vars

\* a dry run has decided a HIT against a populated store and is about to exit
DryRunOnlyDecidesWitness ==
  /\ dryRun
  /\ pc = "exit"
  /\ DOMAIN ptr # {}
  /\ DOMAIN out # {}
  /\ \E i \in 1..Len(log) : log[i].msg = "HIT"

\* an entry without run.key, without a non-empty run.sources list, or without a
\* cache directory
LacksRequiredField(entry) ==
  \/ entry.run.key = ""
  \/ ~entry.run.hasSources
  \/ entry.run.sources = <<>>
  \/ entry.run.cacheDir = <<>>

ConfiguredEntries ==
  UNION {Range(cfg[i].cacheConfig.entries) : i \in 1..Len(cfg)}

\* the iteration over an entry that satisfies lacks(entry) warns and changes
\* neither the collector list nor the entries recorded for population, and no
\* pointer record carries the key of such an entry
SkippedWhen(lacks(_)) ==
  /\ (pc = "decide" /\ lacks(CurrentEntry)) =>
       /\ log' = Append(log, InvalidWarning(CurrentEntry))
       /\ collector' = collector
       /\ cacheEntries' = cacheEntries
  /\ \A k \in DOMAIN ptr' : \A entry \in ConfiguredEntries :
       lacks(entry) => k[3] # entry.run.key

\* C14: an entry that lacks run.key, a non-empty run.sources list, or a cache
\* directory is skipped with a warning, is not appended to the collector list,
\* is not recorded for population, and never gets a pointer record.
InvalidEntriesAreSkipped == [][SkippedWhen(LacksRequiredField)]_vars

\* the same for the entries the check at the head of the loop rejects (no key,
\* no sources property, no cache directory), with their valid siblings decided
\* as usual
RejectedEntriesAreSkipped ==
  [][/\ SkippedWhen(IsInvalidEntry)
     /\ Deciding => /\ DecisionMade.msg \in {"HIT", "MISS", "ERROR"}
                    /\ DecisionMade.a = CurrentEntry.run.key]_vars

\* main was served from the cache in a batch where two entries were rejected
RejectedEntriesAreSkippedWitness ==
  /\ pc = "publish"
  /\ Len(log) >= 3
  /\ log[1] = InvalidWarning(NoKeyEntry)
  /\ log[2] = InvalidWarning(NoSourcesEntry)
  /\ log[3].msg = "HIT"
  /\ log[3].a = "main"

\* hashing the resolved sources of the deciding entry raises an exception
DecidingThrows ==
  /\ existsSync(wt[CurrentOrigin.worktree], <<>>)
  /\ readFileSyncThrows(DecidingFiles, DecidingResolution.resolvedSources)

\* an earlier entry of the running batch ended in the catch block
ErrorLogged == \E i \in 1..Len(log) : log[i].msg = "ERROR"

\* C15: an exception raised while an entry is evaluated is caught at the entry
\* boundary: an error naming the entry is logged, the entry's original run and
\* scan are appended to the collector list of its origin, nothing else changes,
\* the loop goes on, and every later entry of the batch gets the decision the
\* pointer store and the stored outputs give it.
ExceptionIsIsolated ==
  /\ [][(Deciding /\ DecidingThrows) =>
          /\ DecisionMade.level = "error"
          /\ DecisionMade.msg = "ERROR"
          /\ DecisionMade.a = CurrentEntry.run.key
          /\ DecisionMade.worktree = CurrentOrigin.worktree
          /\ collector' = [collector EXCEPT ![oi] =
                             Append(@, [run |-> CurrentEntry.run, scan |-> CurrentEntry.scan])]
          /\ cacheEntries' = cacheEntries
          /\ BatchContinues
          /\ UNCHANGED <<cfg, force, dryRun, cmdFails, src, wt, ptr, out>>]_vars
  /\ [][(Deciding /\ ErrorLogged /\ SourcesResolved) =>
          /\ DecisionMade.a = CurrentEntry.run.key
          /\ DecisionMade.contentHash = DecidingFingerprint
          /\ IF ~force /\ PointerLoads
                /\ checkOutputsExist(StoredOutputTree, CurrentEntry.run.cacheDir)
               THEN DecisionMade.msg = "HIT"
               ELSE DecisionMade.msg = "MISS"]_vars

\* the entry of the first origin ended in the catch block and was handed to the
\* collector as it was, and the entry of the second origin was then served from
\* the cache
ExceptionIsIsolatedWitness ==
  /\ pc = "build"
  /\ Len(log) = 2
  /\ log[1].msg = "ERROR"
  /\ log[1].worktree = "w1"
  /\ log[2].msg = "HIT"
  /\ log[2].worktree = "w2"
  /\ collector[1] = <<[run |-> cfg[1].cacheConfig.entries[1].run,
                       scan |-> cfg[1].cacheConfig.entries[1].scan]>>

\* the pointer file of the deciding entry is there, but its text does not parse
PointerCorrupt == DecidingPointerPath \in DOMAIN ptr /\ ~ptr[DecidingPointerPath].wellFormed

\* the stored output directory the pointer of the deciding entry names cannot be listed
StoredOutputUnreadable ==
  /\ PointerLoads
  /\ existsSync(StoredOutputTree, CurrentEntry.run.cacheDir)
  /\ readdirSyncThrows(StoredOutputTree, CurrentEntry.run.cacheDir)

\* C16: a pointer file that exists but does not parse is treated as no pointer
\* (MISS, reason 'no cache entry' unless the run is forced), a failure to list the
\* stored output directory is treated as outputs absent (MISS, reason 'cached
\* outputs missing' unless the run is forced), and in both cases the entry is
\* scheduled, recorded for population, and the loop goes on.
StoreErrorsNeverHit ==
  [][(Deciding /\ SourcesResolved /\ (PointerCorrupt \/ StoredOutputUnreadable)) =>
       /\ DecisionMade.msg = "MISS"
       /\ DecisionMade.a = CurrentEntry.run.key
       /\ ~force => DecisionMade.b = IF PointerCorrupt THEN "no cache entry"
                                                      ELSE "cached outputs missing"
       /\ collector' = [collector EXCEPT ![oi] =
                          Append(@, [run |-> CurrentEntry.run, scan |-> CurrentEntry.scan])]
       /\ Len(cacheEntries') = Len(cacheEntries) + 1
       /\ BatchContinues]_vars

\* a MISS 'no cache entry' was decided over a pointer file that does not parse
StoreErrorsNeverHitWitness ==
  /\ pc \in {"decide", "build"}
  /\ ~force
  /\ \E i \in 1..Len(log) : \E k \in DOMAIN ptr :
       /\ log[i].msg = "MISS"
       /\ log[i].b = "no cache entry"
       /\ k[3] = log[i].a
       /\ k[4] = log[i].contentHash
       /\ ~ptr[k].wellFormed

\* a MISS 'cached outputs missing' was decided over a stored output directory
\* that holds files but cannot be listed
UnreadableOutputMissReached ==
  /\ pc \in {"decide", "build"}
  /\ ~force
  /\ \E i \in 1..Len(log) : \E k \in DOMAIN out :
       /\ log[i].msg = "MISS"
       /\ log[i].b = "cached outputs missing"
       /\ k[2] = log[i].contentHash
       /\ \E p \in DOMAIN out[k] : out[k][p].type = "locked"
       /\ \E p \in DOMAIN out[k] : out[k][p].type = "file"

\* the regular files below path p of tree t
FilesBelow(t, p) == {q \in DOMAIN t : IsPrefix(p, q) /\ q # p /\ t[q].type = "file"}

\* C17: checkOutputsExist(path) is true exactly when path exists, is a
\* directory, and a regular file lies below it at some depth; so it is false for
\* a missing path, a plain file, an empty directory, a directory of empty
\* directories only, and a directory whose only entries are symbolic links.
OutputsExistIffRegularFileBelow ==
  h.pc = "checked" =>
    LET t == h.tree
        p == h.outputPath
        entries == readdirSync(t, p)
    IN /\ h.exists <=> /\ p \in DOMAIN t
                       /\ t[p].type = "dir"
                       /\ FilesBelow(t, p) # {}
       /\ p \notin DOMAIN t => ~h.exists
       /\ (p \in DOMAIN t /\ t[p].type = "file") => ~h.exists
       /\ (p \in DOMAIN t /\ entries = {}) => ~h.exists
       /\ (p \in DOMAIN t /\ \A q \in DOMAIN t : t[q].type = "dir") => ~h.exists
       /\ (p \in DOMAIN t /\ entries # {} /\ \A q \in entries : t[q].type = "link") => ~h.exists

\* the check found the one regular file of a tree, two levels down, next to a
\* symbolic link and an empty directory
OutputsExistIffRegularFileBelowWitness ==
  /\ h.pc = "checked"
  /\ h.exists
  /\ DOMAIN h.tree = {<<"out">>, <<"out", "a">>, <<"out", "b">>, <<"out", "a", "a">>, <<"out", "a", "b">>}
  /\ h.tree[<<"out", "a">>].type = "dir"
  /\ h.tree[<<"out", "b">>].type = "link"
  /\ h.tree[<<"out", "a", "a">>].type = "dir"
  /\ h.tree[<<"out", "a", "b">>].type = "file"

\* the part of a tree at and below dir
StoredUnder(tree, dir) == [q \in {x \in DOMAIN tree : IsPrefix(dir, x)} |-> tree[q]]

\* the fingerprints under which the step writes a pointer
WrittenFingerprints ==
  {k[4] : k \in {x \in DOMAIN ptr' : x \notin DOMAIN ptr \/ ptr'[x] # ptr[x]}}

\* the population step leaves alone what is stored, under fingerprints other than
\* the ones in skip, for the pointers of every other key
OthersUntouched(skip) ==
  \A k \in DOMAIN ptr :
    (k[3] # PopulatedEntry.key /\ ptr[k].wellFormed) =>
      LET pointer == JSONparse(ptr[k])
      IN \A o \in DOMAIN out :
           (o[2] = pointer.outputDir /\ o[2] \notin skip) =>
             /\ o \in DOMAIN out'
             /\ StoredUnder(out'[o], pointer.scanDir) = StoredUnder(out[o], pointer.scanDir)

\* C18: the population of one entry never removes or replaces the stored output
\* that the pointer of an entry with a different key names, whatever the
\* fingerprints and cache directories of the two entries are.
PopulationLeavesOtherEntriesAlone == [][Populating => OthersUntouched({})]_vars

\* The frame across fingerprints: the population of an entry changes nothing that
\* is stored under a fingerprint other than the one it writes.
PopulationLeavesOtherFingerprintsAlone == [][Populating => OthersUntouched(WrittenFingerprints)]_vars

\* When main was served from the cache, the population of twin in the same
\* process leaves what is stored for main with a regular file in it.
HitKeepsStoredOutput ==
  [][(/\ Populating
      /\ PopulatedEntry.key = "twin"
      /\ \E i \in 1..Len(log) : log[i].msg = "HIT" /\ log[i].a = "main") =>
       \A o \in DOMAIN out : checkOutputsExist(out[o], <<"build">>) =>
                               checkOutputsExist(out'[o], <<"build">>)]_vars

\* the stored files, relative to the stored output directory, and those of them
\* that a pattern of the list matches
StoredFiles ==
  {SubSeq(q, Len(CacheOutputDir) + 1, Len(q)) : q \in FilesBelow(h.store, CacheOutputDir)}

MatchedBy(pattern) == {rel \in StoredFiles : GlobMatches(pattern, rel)}

Matched == UNION {MatchedBy(h.patterns.items[i]) : i \in 1..Len(h.patterns.items)}

RECURSIVE MatchCount(_)
MatchCount(i) ==
  IF i > Len(h.patterns.items) THEN 0
  ELSE Cardinality(MatchedBy(h.patterns.items[i])) + MatchCount(i + 1)

\* C19: restoreFilesToWorktree copies every stored file that a pattern matches to
\* the same relative path under the worktree output directory, creating parent
\* directories and overwriting files that are there, copies no other file,
\* returns the number of copies it made, and with an empty or absent pattern list
\* copies nothing and returns 0.
RestoreCopiesMatchedFiles ==
  h.pc = "restored" =>
    /\ \A rel \in Matched :
         /\ WorktreeOutputDir \o rel \in DOMAIN h.worktree
         /\ h.worktree[WorktreeOutputDir \o rel] = h.store[CacheOutputDir \o rel]
         /\ \A d \in Prefixes(WorktreeOutputDir \o Front(rel)) :
              d \in DOMAIN h.worktree /\ h.worktree[d].type = "dir"
    /\ \A q \in DOMAIN h.before :
         (\A rel \in Matched : q # WorktreeOutputDir \o rel) =>
            q \in DOMAIN h.worktree /\ h.worktree[q] = h.before[q]
    /\ \A q \in DOMAIN h.worktree \ DOMAIN h.before :
         \E rel \in Matched : IsPrefix(q, WorktreeOutputDir \o rel)
    /\ h.count = h.copies
    /\ h.count = MatchCount(1)
    /\ (~h.patterns.isArray \/ h.patterns.items = <<>>) =>
         h.count = 0 /\ h.worktree = h.before

\* a restore with two patterns that overwrote a file of the worktree, created a
\* directory for another, left a stored file that no pattern matches uncopied,
\* and copied one file twice
RestoreCopiesMatchedFilesWitness ==
  /\ h.pc = "restored"
  /\ h.patterns.items = <<<<"*.html">>, <<"**", "*.html">>>>
  /\ StoredFiles = {<<"index.html">>, <<"notes.txt">>, <<"sub", "page.html">>}
  /\ DOMAIN h.before = {<<>>, <<"build">>, <<"build", "index.html">>}
  /\ h.before[<<"build", "index.html">>] = FileNode(2)
  /\ h.worktree[<<"build", "index.html">>] = FileNode(1)
  /\ <<"build", "sub", "page.html">> \in DOMAIN h.worktree
  /\ <<"build", "notes.txt">> \notin DOMAIN h.worktree
  /\ h.count = 3


\* In the handler the restore runs on a HIT for an entry with a non-empty
\* restoreToWorktree list and in no other iteration: only such a step changes a
\* worktree, and it leaves there every stored file its patterns match.
RestoreOnlyOnHit ==
  [][pc = "decide" =>
       /\ wt' # wt => /\ Deciding
                      /\ DecisionMade.msg = "HIT"
                      /\ CurrentEntry.run.restoreToWorktree # <<>>
       /\ (Deciding /\ DecisionMade.msg = "HIT") =>
            LET run == CurrentEntry.run
                stored == StoredOutputTree
                after == wt'[CurrentOrigin.worktree]
            IN \A q \in FilesBelow(stored, run.cacheDir) :
                 (\E i \in 1..Len(run.restoreToWorktree) :
                    GlobMatches(run.restoreToWorktree[i],
                                SubSeq(q, Len(run.cacheDir) + 1, Len(q)))) =>
                   q \in DOMAIN after /\ after[q] = stored[q]]_vars

\* a HIT has put a stored file back into a worktree whose build left none
RestoreOnHitReached ==
  /\ pc = "build"
  /\ Len(log) = 2
  /\ log[2].msg = "HIT"
  /\ log[2].worktree = "w2"
  /\ cfg[2].cacheConfig.entries[1].run.restoreToWorktree # <<>>
  /\ <<"build", "index.html">> \in DOMAIN wt["w2"]
  /\ <<"build", "sub", "page.html">> \notin DOMAIN wt["w2"]


\* the source-discovery commands of every entry the deciding entry depends on
DependencyCommandsOfDeciding ==
  LET entriesMap == buildEntriesMap(CurrentOrigin.cacheConfig.entries)
      direct == Range(CurrentEntry.run.dependsOn) \cap DOMAIN entriesMap
      all == DependencyClosure(entriesMap, direct, Cardinality(DOMAIN entriesMap))
  IN UNION {Range(entriesMap[k].sourceCommands) : k \in all}

\* the step records the deciding entry for population
Recorded == Len(cacheEntries') = Len(cacheEntries) + 1

\* what the step records holds the sources and commands of the entry and of its
\* transitive dependencies
RecordsDependencySources ==
  LET e == cacheEntries'[Len(cacheEntries')]
  IN /\ e.key = CurrentEntry.run.key
     /\ Range(e.sources) = Range(CurrentEntry.run.sources) \cup DependencySourcesOfDeciding
     /\ Range(e.sourceCommands) =
          Range(CurrentEntry.run.sourceCommands) \cup DependencyCommandsOfDeciding

\* the fingerprint the decision phase computes for an entry on given files
DecisionFingerprint(o, entry, files) ==
  computeContentHash(ResolveEntry(o, entry, files, cmdFails).sourceHashes)

\* C20: whatever path led to the MISS, the entry recorded for population carries
\* its own sources and sourceCommands together with those of its transitive
\* dependencies, and the pointer that population writes for it is under the
\* fingerprint the decision phase computes for the worktree content at that time.
RecordedSourcesCoverDependencies ==
  /\ [][(Deciding /\ Recorded) => RecordsDependencySources]_vars
  /\ [][Populating =>
          LET e == PopulatedEntry
              o == OriginOf(e.worktree)
              files == FilesOf(src, wt, e.worktree)
          IN \A k \in DOMAIN ptr' :
               (k[3] = e.key /\ (k \notin DOMAIN ptr \/ ptr'[k] # ptr[k])) =>
                  k[4] = DecisionFingerprint(o, EntryOf(o, e.key), files)]_vars

\* The same for the entries that were hashed before they were recorded (no
\* pointer, stored outputs missing, forced).
HashedMissRecordsDependencySources ==
  [][(Deciding /\ Recorded /\ SourcesResolved) =>
       /\ RecordsDependencySources
       /\ cacheEntries'[Len(cacheEntries')].contentHash = DecidingFingerprint]_vars

(***************************************************************************)
(* Properties of the cache store layout (Spec)                             *)
(***************************************************************************)
\* the pointer files a step writes or rewrites
PointersWritten == {k \in DOMAIN ptr' : k \notin DOMAIN ptr \/ ptr'[k] # ptr[k]}

\* the build left the output directory of the populated entry
BuildOutputThere == existsSync(wt[PopulatedEntry.worktree], PopulatedEntry.outputDir)

\* C21: population writes the pointer record and the stored output under one and
\* the same cache root, the one the decision phase reads: whenever population
\* leaves a pointer at <root>/hashes/<component>/<key>/<F>.json and copies the
\* output of the build, the copy is at <root>/outputs/<F>/<cacheDir>.
PointerAndOutputShareRoot ==
  [][(Populating /\ BuildOutputThere /\ StoreReadable) =>
       LET e == PopulatedEntry
           o == OriginOf(e.worktree)
       IN \A k \in PointersWritten :
            /\ k[1] = CacheRoot(o.cacheConfig)
            /\ existsSync(OutTree(out', k[1], k[4]), e.outputDir)]_vars

\* The same where no origin names a cache directory.
PointerAndOutputShareDefaultRoot ==
  [][(Populating /\ BuildOutputThere /\ StoreReadable /\ DefaultRoot) =>
       LET e == PopulatedEntry
           o == OriginOf(e.worktree)
       IN \A k \in PointersWritten :
            /\ k[1] = CacheRoot(o.cacheConfig)
            /\ existsSync(OutTree(out', k[1], k[4]), e.outputDir)]_vars

\* population has written a pointer and copied a build output
PointerAndOutputShareDefaultRootWitness ==
  /\ pc = "publish"
  /\ pi > 1
  /\ DefaultRoot
  /\ \E k \in DOMAIN ptr : \E q \in DOMAIN out :
       /\ JSONparse(ptr[k]).timestamp = clock
       /\ q[2] = k[4]
       /\ existsSync(out[q], JSONparse(ptr[k]).scanDir)

\* the cacheDir values of the configured entries with a key
CacheDirsOf(key) ==
  UNION {{cfg[i].cacheConfig.entries[j].run.cacheDir :
            j \in {n \in 1..Len(cfg[i].cacheConfig.entries) :
                     cfg[i].cacheConfig.entries[n].run.key = key}} : i \in 1..Len(cfg)}

\* a pointer file that parses names its own fingerprint, the cacheDir of its
\* entry, and the hashes its fingerprint is the hash of
PointerMatchesItsPath(k) ==
  LET pointer == loadPointerFile(ptr, k)
  IN pointer # NULL =>
       /\ pointer.outputDir = k[4]
       /\ pointer.scanDir \in CacheDirsOf(k[3])
       /\ computeContentHash(pointer.sources) = k[4]

\* C22: every pointer record written by population at <hashDir>/<key>/<F>.json has
\* outputDir equal to F, scanDir equal to the entry's cacheDir and sources equal
\* to the hashed map; so in every reachable state of the store the stored-output
\* path derived from a pointer that loads equals the path derived from the
\* fingerprint it was looked up by.
PointerNamesItsFingerprint ==
  /\ [](\A k \in DOMAIN ptr : PointerMatchesItsPath(k))
  /\ [][Populating =>
          LET e == PopulatedEntry
          IN \A k \in PointersWritten :
               LET pointer == loadPointerFile(ptr', k)
               IN /\ k = PointerPath(e.componentHashDir, e.key, pointer.outputDir)
                  /\ pointer.scanDir = e.outputDir
                  /\ e.sourceHashes # NULL => pointer.sources = e.sourceHashes
                  /\ e.sourceHashes # NULL => pointer.outputDir = e.contentHash
                  /\ computeContentHash(pointer.sources) = pointer.outputDir]_vars
  /\ [][(Deciding /\ SourcesResolved /\ PointerLoads) =>
          JSONparse(ptr[DecidingPointerPath]).outputDir = DecidingFingerprint]_vars

\* a decision has loaded a pointer that an earlier process wrote, after sources
\* changed and a second pointer for the same key was written
PointerNamesItsFingerprintWitness ==
  /\ \E i \in 1..Len(log) : \E k \in DOMAIN ptr :
       /\ log[i].msg = "HIT"
       /\ k[3] = log[i].a
       /\ k[4] = log[i].contentHash
       /\ JSONparse(ptr[k]).timestamp < clock
  /\ \E k1, k2 \in DOMAIN ptr : k1[3] = k2[3] /\ k1[4] # k2[4]

(***************************************************************************)
(* Properties of the decision rule and of population (Spec)                *)
(***************************************************************************)
\* the lines a step adds to the log
Logged == SubSeq(log', Len(log) + 1, Len(log'))

\* the reasons the step gives for a MISS
MissReasonsLogged == {i \in 1..Len(Logged) : Logged[i].msg = "MISS"}

PopulationSources ==
  resolveSources(existsSync(wt[PopulatedEntry.worktree], <<>>), cmdFails,
                 PopulatedEntry.sources, PopulatedEntry.sourceCommands, PopulatedEntry.key).sources

PopulationFiles == FilesOf(src, wt, PopulatedEntry.worktree)

\* the entry was not hashed when it was decided and one of its sources is
\* still missing after the build
SourcesStillMissing ==
  /\ PopulatedEntry.sourceHashes = NULL
  /\ ~readFileSyncThrows(PopulationFiles, PopulationSources)
  /\ \E i \in 1..Len(PopulationSources) : PopulationFiles[PopulationSources[i]] = 0

\* C24: if an entry's sources were not hashed at decision time and are still
\* missing when population runs, population reports a warning and skips the
\* entry: neither a pointer record nor a stored output is written for it, and
\* the loop goes on to the remaining entries.
StillMissingSourcesAreSkipped ==
  [][(Populating /\ SourcesStillMissing) =>
       /\ ptr' = ptr
       /\ out' = out
       /\ Len(Logged) >= 1
       /\ Logged[Len(Logged)] = [level |-> "warn", msg |-> "sources still not found",
                                 a |-> PopulatedEntry.key, b |-> PopulatedEntry.worktree]
       /\ pc' = "publish"
       /\ pi' = pi + 1
       /\ cacheEntries' = cacheEntries]_vars

\* population has skipped entry gen, whose source the build did not generate,
\* and has gone on to write the pointer of entry main
StillMissingSourcesAreSkippedWitness ==
  /\ pc = "publish"
  /\ pi = 3
  /\ Len(log) >= 2
  /\ \E i \in 1..Len(log) : \E j \in (i + 1)..Len(log) :
       /\ log[i].msg = "sources still not found"
       /\ log[i].a = "gen"
       /\ log[j].a = "main"
  /\ \A k \in DOMAIN ptr : k[3] # "gen"
  /\ \E k \in DOMAIN ptr : k[3] = "main" /\ JSONparse(ptr[k]).timestamp = clock

\* population gets as far as the pointer file: the entry has hashes, or its
\* sources are resolved and hashed now
PopulationHashes ==
  IF PopulatedEntry.sourceHashes # NULL THEN PopulatedEntry.sourceHashes
  ELSE computeHashes(PopulationFiles, PopulationSources)

PopulationReachesPointer ==
  /\ PopulatedEntry.sourceHashes = NULL => ~readFileSyncThrows(PopulationFiles, PopulationSources)
  /\ PopulationHashes # NULL

\* the decision a process would make for the populated entry right after the
\* step, with the sources as they are
NextDecision(forceRun) ==
  LET e == PopulatedEntry
      o == OriginOf(e.worktree)
  IN Evaluate(o, EntryOf(o, e.key), forceRun, wt[e.worktree], PopulationFiles, cmdFails, ptr', out')

\* the pointer is written, nothing is copied, the warning is logged
PointerWithoutOutput ==
  LET e == PopulatedEntry
      F == computeContentHash(PopulationHashes)
  IN /\ loadPointerFile(ptr', PointerPath(e.componentHashDir, e.key, F)) =
          [outputDir |-> F, scanDir |-> e.outputDir, sources |-> PopulationHashes,
           timestamp |-> clock]
     /\ out' = out
     /\ Len(Logged) >= 1
     /\ Logged[Len(Logged)] = [level |-> "warn", msg |-> "output directory not found",
                               a |-> e.key, b |-> e.worktree]

\* the store holds, before the step, an output that passes the existence check
\* at the place the next decision looks
OutputStoredFor(contentHash) ==
  LET e == PopulatedEntry
      o == OriginOf(e.worktree)
  IN checkOutputsExist(OutTree(out, CacheRoot(o.cacheConfig), contentHash), e.outputDir)

OutputAlreadyStored == OutputStoredFor(NextDecision(FALSE).contentHash)

MissingOutputThenMissWithReason ==
  [][(Populating /\ PopulationReachesPointer /\ ~BuildOutputThere /\ ~OutputAlreadyStored) =>
       NextDecision(FALSE).reason = "cached outputs missing"]_vars

DecidingWorktreeMissing == ~existsSync(wt[CurrentOrigin.worktree], <<>>)

\* C26: when the build root directory does not exist at decision time, the entry
\* goes directly to MISS without resolving sources, hashing or loading a pointer
\* (whatever the force signal and the store hold); its run is appended to the
\* collector list and it is recorded for population with no hashes, so that
\* population resolves and hashes its sources after the build.
MissingRootIsDirectMiss ==
  /\ [][(Deciding /\ DecidingWorktreeMissing) =>
          /\ Logged = <<[level |-> "debug", msg |-> "MISS", a |-> CurrentEntry.run.key,
                         b |-> "worktree missing", worktree |-> CurrentOrigin.worktree,
                         hashed |-> NULL, contentHash |-> NullHash]>>
          /\ Appended = <<[run |-> CurrentEntry.run, scan |-> CurrentEntry.scan]>>
          /\ Len(cacheEntries') = Len(cacheEntries) + 1
          /\ SubSeq(cacheEntries', 1, Len(cacheEntries)) = cacheEntries
          /\ LET e == cacheEntries'[Len(cacheEntries')]
             IN /\ e.key = CurrentEntry.run.key
                /\ e.worktree = CurrentOrigin.worktree
                /\ e.outputDir = CurrentEntry.run.cacheDir
                /\ e.sourceHashes = NULL
                /\ e.contentHash = NullHash
          /\ wt' = wt]_vars
  /\ [][(Populating /\ PopulatedEntry.sourceHashes = NULL /\ PopulationReachesPointer) =>
          LET e == PopulatedEntry
              F == computeContentHash(computeHashes(PopulationFiles, PopulationSources))
          IN /\ Range(PopulationSources) \subseteq {p \in SourceNames : PopulationFiles[p] > 0}
             /\ loadPointerFile(ptr', PointerPath(e.componentHashDir, e.key, F)) # NULL
             /\ loadPointerFile(ptr', PointerPath(e.componentHashDir, e.key, F)).sources =
                  computeHashes(PopulationFiles, PopulationSources)]_vars

\* an entry decided while its worktree did not exist was recorded without
\* hashes, the collector created the worktree, and population has written its
\* pointer from hashes computed after the build
MissingRootIsDirectMissWitness ==
  /\ pc = "publish"
  /\ pi = Len(cacheEntries) + 1
  /\ \E i \in 1..Len(log) : log[i].msg = "MISS" /\ log[i].b = "worktree missing"
  /\ \E i \in 1..Len(cacheEntries) : \E k \in DOMAIN ptr :
       /\ cacheEntries[i].sourceHashes = NULL
       /\ k[3] = cacheEntries[i].key
       /\ JSONparse(ptr[k]).timestamp = clock
       /\ computeContentHash(JSONparse(ptr[k]).sources) = k[4]

(***************************************************************************)
(* Properties of the order of evaluation (SpecSteps)                       *)
(***************************************************************************)
EvaluationOrder == <<"resolve", "hash", "lookup", "decide">>

\* what the handler decides for the entry when it is taken as one step
StepOutcome ==
  Evaluate(h.origin, StepEntry(h.origin), h.forceRun,
           IF h.worktreeExists THEN WorktreeRoot ELSE EmptyTree,
           IF h.worktreeExists THEN h.files ELSE MissingFiles,
           h.fails, h.store.ptr, h.store.out)

RECURSIVE DepthFirst(_, _, _, _)
DepthFirst(registry, key, keys, onPath) ==
  IF keys = <<>> THEN [sources |-> <<>>, sourceCommands |-> <<>>, notFound |-> <<>>]
  ELSE
    LET k == Head(keys)
        below == IF k \in onPath \/ k \notin DOMAIN registry
                   THEN DepthFirst(registry, k, <<>>, onPath)
                   ELSE DepthFirst(registry, k, registry[k].dependsOn, onPath \cup {k})
        own(field) == IF k \in onPath \/ k \notin DOMAIN registry THEN <<>> ELSE registry[k][field]
        rest == DepthFirst(registry, key, Tail(keys), onPath)
    IN [sources |-> own("sources") \o below.sources \o rest.sources,
        sourceCommands |-> own("sourceCommands") \o below.sourceCommands \o rest.sourceCommands,
        notFound |-> (IF k \notin onPath /\ k \notin DOMAIN registry
                        THEN <<[level |-> "warn", msg |-> "notfound", a |-> key, b |-> k]>>
                        ELSE <<>>)
                     \o below.notFound \o rest.notFound]

\* the number of ways to reach a key from the root along dependsOn without
\* passing a key twice
RECURSIVE WaysTo(_, _, _, _)
WaysTo(registry, keys, onPath, target) ==
  IF keys = <<>> THEN 0
  ELSE LET k == Head(keys)
       IN (IF k \in onPath \/ k \notin DOMAIN registry THEN 0
           ELSE (IF k = target THEN 1 ELSE 0)
                + WaysTo(registry, registry[k].dependsOn, onPath \cup {k}, target))
          + WaysTo(registry, Tail(keys), onPath, target)

Occurrences(seq, x) == Cardinality({i \in 1..Len(seq) : seq[i] = x})

DepRoot == h.entriesMap["a"]

\* C28: resolveDependencySources is a pure accumulator: its result lists, for
\* each dependency key in declaration order, that dependency's own sources and
\* sourceCommands followed by the result of recursing into its dependsOn (depth
\* first); a dependency reached along several paths contributes once per path;
\* a key missing from the registry contributes nothing, produces a 'dependency
\* not found' diagnostic and does not stop the remaining keys; the registry and
\* the visited sets of the callers are left as they were.
DepthFirstAccumulation ==
  /\ [](h.pc = "done" =>
          LET expected == DepthFirst(h.entriesMap, "a", DepRoot.dependsOn, {"a"})
          IN /\ h.result.sources = expected.sources
             /\ h.result.sourceCommands = expected.sourceCommands
             /\ SelectSeq(h.result.warnings, LAMBDA w : w.msg = "notfound") = expected.notFound
             /\ \A k \in DOMAIN h.entriesMap :
                  Occurrences(h.result.sources, h.entriesMap[k].sources[1]) =
                    WaysTo(h.entriesMap, DepRoot.dependsOn, {"a"}, k))
  /\ [][/\ h'.entriesMap = h.entriesMap
        /\ \A i \in 1..Len(h.stack) : i <= Len(h'.stack) =>
             /\ h'.stack[i].visited = h.stack[i].visited
             /\ h'.stack[i].dependsOn = h.stack[i].dependsOn]_vars

\* the first dependency of the root is missing from the registry: one diagnostic,
\* and the second dependency is resolved all the same
DepthFirstAccumulationWitness ==
  /\ h.pc = "done"
  /\ DOMAIN h.entriesMap = {"a", "c"}
  /\ DepRoot.dependsOn = <<"b", "c">>
  /\ h.result.sources = <<"src/gen.c">>
  /\ Len(h.result.warnings) = 1
  /\ h.result.warnings[1].msg = "notfound"

\* a diamond: c is reached through b and directly, and contributes twice
DiamondContributesTwice ==
  /\ h.pc = "done"
  /\ DepRoot.dependsOn = <<"b", "c">>
  /\ DOMAIN h.entriesMap = {"a", "b", "c"}
  /\ h.entriesMap["b"].dependsOn = <<"c">>
  /\ h.entriesMap["c"].dependsOn = <<>>
  /\ h.result.sources = <<"lib/helper.c", "src/gen.c", "src/gen.c">>
  /\ h.result.sourceCommands = <<"list-generated", "list-generated">>
  /\ h.result.warnings = <<>>

\* no key of the registry depends on itself, directly or through other keys
Acyclic(registry) ==
  \A k \in DOMAIN registry :
    k \notin DependencyClosure(registry, Range(registry[k].dependsOn) \cap DOMAIN registry,
                               Cardinality(DOMAIN registry))

\* the circular-dependency diagnostics logged so far
CircularWarnings(ws) == SelectSeq(ws, LAMBDA w : w.msg = "circular")

\* the visited set of every running invocation holds the keys on the path from
\* the root to it, and nothing else
VisitedIsThePath ==
  h.pc = "resolving" =>
    \A i \in 1..Len(h.stack) : h.stack[i].visited = {h.stack[j].key : j \in 1..i}

\* a recursive call gets the caller's set extended by the dependency's key, and
\* the caller's own set stays as it was
CallCopiesVisited ==
  Len(h'.stack) = Len(h.stack) + 1 =>
    /\ h'.stack[Len(h'.stack)].visited = DepTop.visited \cup {DepKey}
    /\ h'.stack[Len(h.stack)].visited = DepTop.visited

\* a step logs a circular diagnostic exactly when the key it looks at is on the
\* current path; keys seen in finished branches do not count
CircularOnlyOnPath ==
  h.pc = "resolving" =>
    IF DepRunning /\ DepKey \in Range(DepPath)
      THEN CircularWarnings(h'.warnings) =
             Append(CircularWarnings(h.warnings),
                    [level |-> "warn", msg |-> "circular", a |-> DepTop.key, b |-> DepKey])
      ELSE CircularWarnings(h'.warnings) = CircularWarnings(h.warnings)

\* C29: cycle detection is per path: the visited set passed to a recursive call
\* is a fresh copy extended by that dependency's key, so a dependency shared by
\* two sibling branches (a diamond with no cycle) is resolved in both branches
\* and produces no circular-dependency diagnostic; a diagnostic is produced only
\* for a key already on the current path.
CycleDetectionIsPerPath ==
  /\ []VisitedIsThePath
  /\ [][CallCopiesVisited /\ CircularOnlyOnPath]_vars
  /\ [](h.pc = "done" =>
          /\ Acyclic(h.entriesMap) => CircularWarnings(h.result.warnings) = <<>>
          /\ \A k \in DOMAIN h.entriesMap :
               Acyclic(h.entriesMap) =>
                 Occurrences(h.result.sources, h.entriesMap[k].sources[1]) =
                   WaysTo(h.entriesMap, DepRoot.dependsOn, {}, k))

\* a diamond without a cycle, the shared dependency declared first: c is resolved
\* directly and again below b, and nothing is reported
CycleDetectionIsPerPathWitness ==
  /\ h.pc = "done"
  /\ DOMAIN h.entriesMap = {"a", "b", "c"}
  /\ DepRoot.dependsOn = <<"c", "b">>
  /\ h.entriesMap["b"].dependsOn = <<"c">>
  /\ h.entriesMap["c"].dependsOn = <<>>
  /\ h.result.sources = <<"src/gen.c", "lib/helper.c", "src/gen.c">>
  /\ h.result.warnings = <<>>

(***************************************************************************)
(* Frame of the decision phase on the cache store (Spec)                   *)
(***************************************************************************)
\* C30: the decision phase only reads the cache store: no decision, HIT or MISS,
\* creates, modifies or deletes a pointer record or a stored output directory;
\* pointer records are created or overwritten only by population, and no
\* pointer record is ever deleted.  (Between processes the store is open to
\* damage from outside, which is not a step of the extension.)
DecisionOnlyReadsStore ==
  [][/\ pc = "decide" => (ptr' = ptr /\ out' = out)
     /\ (pc # "idle" /\ ptr' # ptr) =>
          /\ Populating
          /\ \A k \in PointersWritten :
               /\ k[3] = PopulatedEntry.key
               /\ loadPointerFile(ptr', k) # NULL
     /\ (pc # "idle" /\ out' # out) => Populating
     /\ DOMAIN ptr \subseteq DOMAIN ptr']_vars

\* a HIT has restored files from a stored output into a worktree, and the
\* stored output and the pointer are as the earlier process left them
DecisionOnlyReadsStoreWitness ==
  /\ pc = "build"
  /\ \E i \in 1..Len(log) : \E k \in DOMAIN ptr :
       /\ log[i].msg = "HIT"
       /\ EntryOf(OriginOf(log[i].worktree), log[i].a).run.restoreToWorktree # <<>>
       /\ k[3] = log[i].a
       /\ k[4] = log[i].contentHash
       /\ JSONparse(ptr[k]).timestamp < clock
       /\ <<"build", "index.html">> \in DOMAIN wt[log[i].worktree]
       /\ <<"build", "index.html">> \in DOMAIN OutTree(out, k[1], k[4])
       /\ <<"build", "sub", "page.html">> \in DOMAIN OutTree(out, k[1], k[4])

\* the pointer record the decision loads
DecidingPointer == JSONparse(ptr[DecidingPointerPath])

\* the scan of the entry with every dir pointed at the stored output the pointer
\* names, files and into as they were, as an array
ScanPointedAtStore ==
  [isArray |-> TRUE,
   items |-> [k \in 1..Len(CurrentEntry.scan.items) |->
                [dir |-> [base |-> CacheRoot(CurrentOrigin.cacheConfig),
                          fp |-> DecidingPointer.outputDir,
                          path |-> CurrentEntry.scan.items[k].dir.path],
                 files |-> CurrentEntry.scan.items[k].files,
                 into |-> CurrentEntry.scan.items[k].into]]]

\* C31: the scan instruction is rewritten only on a HIT.  On a HIT of an entry
\* with a scan, one item is appended whose scan lists, for each scan entry of
\* the entry (a single scan object counting as a list of one), the directory
\* cacheRoot/outputs/<pointer.outputDir>/<scan.dir> with files and into
\* unchanged; on every MISS and when an exception was caught, the item appended
\* is the run and the scan of the entry exactly as configured.
ScanRewrittenOnlyOnHit ==
  [][Deciding =>
       /\ DecisionMade.msg \in {"HIT", "MISS", "ERROR"}
       /\ (DecisionMade.msg = "HIT" /\ CurrentEntry.scan # ScanAbsent) =>
            /\ Len(Appended) = 1
            /\ Appended[1].scan = ScanPointedAtStore
       /\ DecisionMade.msg # "HIT" =>
            Appended = <<[run |-> CurrentEntry.run, scan |-> CurrentEntry.scan]>>]_vars

\* In one process the entry of the first origin, whose scan is a single scan
\* object, fell back after an exception and was passed through as that object,
\* and the same entry of the second origin was a HIT whose item scans the stored
\* output through a list of one.
ScanRewrittenOnlyOnHitWitness ==
  /\ Len(cfg) = 2
  /\ \E i \in 1..Len(log) : log[i].msg = "ERROR"
  /\ \E j \in 1..Len(cfg[1].cacheConfig.entries) :
       /\ ~cfg[1].cacheConfig.entries[j].scan.isArray
       /\ Len(cfg[1].cacheConfig.entries[j].scan.items) = 1
       /\ collector[1] = <<[run |-> cfg[1].cacheConfig.entries[j].run,
                            scan |-> cfg[1].cacheConfig.entries[j].scan]>>
       /\ Len(collector[2]) = 1
       /\ collector[2][1].run.command = "true"
       /\ collector[2][1].scan.isArray
       /\ Len(collector[2][1].scan.items) = 1
       /\ collector[2][1].scan.items[1].dir.base = DEFAULT_CACHE_DIR
       /\ collector[2][1].scan.items[1].dir.path = cfg[2].cacheConfig.entries[j].scan.items[1].dir.path

\* a HIT of an entry that scans two directories rewrote both
TwoScanEntriesRewritten ==
  \E i \in 1..Len(collector) : \E k \in 1..Len(collector[i]) :
    /\ collector[i][k].run.command = "true"
    /\ Len(collector[i][k].scan.items) = 2
    /\ collector[i][k].scan.items[1].dir.path # collector[i][k].scan.items[2].dir.path
    /\ collector[i][k].scan.items[2].dir.base # "worktree"

\* both populations have ended, in success or in the catch block
RaceOver == \A p \in Populators : h.procs[p].pc \in {"done", "failed"}

\* what the store holds under the output directory
RaceStored == StoredUnder(h.store, RaceOutputDir)

\* the complete output of a build, as a population on its own stores it
CompleteOutput(build) == StoredUnder(copyDirectory(build, RaceOutputDir, EmptyTree, RaceOutputDir), RaceOutputDir)

\* the stored output directory is the complete output of one of the two builds
StoredIsOneOutput == \E p \in Populators : RaceStored = CompleteOutput(h.procs[p].source)

\* C32: two populations of the same fingerprint and cacheDir need no locking:
\* however their steps on the store interleave, neither population fails, and
\* when both have ended the stored output directory is the complete output of
\* one of the two.
ConcurrentPopulationsNeedNoLock ==
  /\ \A p \in Populators : h.procs[p].pc # "failed"
  /\ RaceOver => StoredIsOneOutput

\* the second half of C32 alone: when both populations have ended without
\* failing, the stored output directory is the complete output of one of them
LastWriterWinsWhenNoneFails ==
  (\A p \in Populators : h.procs[p].pc = "done") => StoredIsOneOutput

\* both populations have ended and what is stored is the output of neither
StoredMixReached ==
  /\ \A p \in Populators : h.procs[p].pc = "done"
  /\ ~StoredIsOneOutput

\* the PopulateEntry step copied the build output into the store
PopulationCopied == Populating /\ Len(log') > Len(log) /\ log'[Len(log')].msg = "cached"

\* the fingerprint under which the step stores
PopulationFingerprint == computeContentHash(PopulationHashes)

\* C33: population replaces the stored output of a fingerprint wholesale.  After
\* a step that copied, the stored directory outputs/<fingerprint>/<cacheDir>
\* holds exactly the directories and regular files of <worktree>/<cacheDir>,
\* each regular file with the content it has in the worktree: nothing is left
\* of what was stored there before and no symbolic link of the build output is
\* carried over.
PopulationReplacesWholesale ==
  [][PopulationCopied =>
       LET e == PopulatedEntry
           built == wt[e.worktree]
           stored == StoredUnder(OutTree(out', PublishCacheRoot, PopulationFingerprint), e.outputDir)
       IN /\ DOMAIN stored = RegularUnder(built, e.outputDir)
          /\ \A p \in DOMAIN stored : stored[p] = built[p]
          /\ \A p \in DOMAIN built : built[p].type = "link" => p \notin DOMAIN stored]_vars

\* A second population of a fingerprint replaced a stored output that held
\* index.html and sub/page.html by a build output that has neither: the stored
\* directory holds the empty subdirectory of the new output, and not its
\* symbolic link.
PopulationReplacesWholesaleWitness ==
  /\ runs = 2
  /\ pc = "publish"
  /\ pi > 1
  /\ log # <<>>
  /\ log[Len(log)].msg = "cached"
  /\ LET e == cacheEntries[pi - 1]
         stored == OutTree(out, PublishCacheRoot, e.contentHash)
     IN /\ e.contentHash # NullHash
        /\ e.outputDir = <<"build">>
        /\ wt[e.worktree][<<"build", "latest">>].type = "link"
        /\ <<"build", "index.html">> \notin DOMAIN wt[e.worktree]
        /\ DOMAIN StoredUnder(stored, <<"build">>) = {<<"build">>, <<"build", "sub">>}
        /\ \E i \in 1..Len(log) : log[i].msg = "MISS" /\ log[i].b = "FORCE_COLLECTOR=true"

\* the text of the pointer file before anything was saved, where there was one
TextBefore == h.before.text[PointerFilePath]

\* before anything was saved, a file was at the path and its text was JSON
ParsesBefore == isFile(h.before.tree, PointerFilePath) /\ ~JSONparseThrows(TextBefore)

\* C34: pointer store round trip.  loadPointerFile after savePointerFile at the
\* same path returns a record equal to the one saved, key order included; the
\* save creates the directories of the path that are missing and replaces the
\* file that was there; it leaves every other path as it was.  A load never
\* throws, and without a save it returns null exactly when nothing was at the
\* path or what was there is not a file that parses.
PointerRoundTrip ==
  /\ (h.pc = "loaded" /\ h.saved) => (h.loaded = h.pointer /\ ~h.threw)
  /\ h.pc = "saved" =>
       /\ \A q \in Prefixes(Front(PointerFilePath)) : isDirectory(h.fsys.tree, q)
       /\ isFile(h.fsys.tree, PointerFilePath)
       /\ h.fsys.text[PointerFilePath] = JSONstringifyText(h.pointer)
       /\ \A q \in DOMAIN h.before.tree : q # PointerFilePath => h.fsys.tree[q] = h.before.tree[q]
       /\ DOMAIN h.fsys.tree = DOMAIN h.before.tree \cup Prefixes(PointerFilePath)
  /\ h.pc = "threw" => isDirectory(h.before.tree, PointerFilePath)
  /\ (h.pc = "loaded" /\ ~h.saved) =>
       /\ ~h.threw
       /\ h.fsys = h.before
       /\ h.loaded = NULL <=> ~ParsesBefore
       /\ ParsesBefore => h.loaded = EarlierPointer

\* A pointer whose sources hold MaxListLen paths, one of them with a backslash
\* and a quote, was saved over an earlier pointer file and loaded back.
PointerRoundTripWitness ==
  /\ h.pc = "loaded"
  /\ h.saved
  /\ ParsesBefore
  /\ h.loaded = h.pointer
  /\ h.loaded # EarlierPointer
  /\ Len(h.loaded.val[<<"sources">>].keys) = MaxListLen
  /\ <<Backslash, Quote>> \in Range(h.loaded.val[<<"sources">>].keys)

\* a pointer was saved where not even the cache directory existed, and loaded back
SavedIntoMissingDirectories ==
  /\ h.pc = "loaded"
  /\ h.saved
  /\ h.before.tree = EmptyTree
  /\ h.loaded = h.pointer

\* a load without a save returned null for a file that is cut short
TruncatedFileLoadsNull ==
  /\ h.pc = "loaded"
  /\ ~h.saved
  /\ isFile(h.before.tree, PointerFilePath)
  /\ TextBefore = Front(JSONstringifyText(EarlierPointer))
  /\ h.loaded = NULL


(***************************************************************************)
(* C35  Local-development safety.  When the gitdir of an origin is the     *)
(* .git directory of its worktree, the decision phase makes no git fetch,  *)
(* branch or checkout call for any of its entries; a call of these three   *)
(* is made only for an origin that is not local development and has        *)
(* gitdir, refname, reftype and url.                                       *)
(***************************************************************************)
WorktreeUpdateCalls == {"fetch", "branch", "checkout"}

UpdatesMade == {i \in 1..Len(h.calls) : h.calls[i].call \in WorktreeUpdateCalls}

\* the gitdir is <worktree>/.git
GitdirInsideWorktree ==
  /\ h.origin.worktree # NoPath
  /\ h.origin.gitdir # NoPath
  /\ h.origin.gitdir = normalize(<<>>, h.origin.worktree) \o <<".git">>

LocalDevelopmentSafety ==
  /\ GitdirInsideWorktree => UpdatesMade = {}
  /\ UpdatesMade # {} =>
       /\ ~GitdirInsideWorktree
       /\ h.origin.gitdir # NoPath
       /\ h.origin.refname # ""
       /\ h.origin.reftype # ""
       /\ h.origin.url # ""

\* every entry of a local-development origin with all four properties has
\* been evaluated in a worktree that exists, and no call was made
LocalDevelopmentSafetyWitness ==
  /\ h.pc = "done"
  /\ GitdirInsideWorktree
  /\ h.onDisk
  /\ Len(h.valid) = 2 /\ h.valid[1] /\ h.valid[2]
  /\ h.origin.refname # "" /\ h.origin.reftype = "branch" /\ h.origin.url # ""
  /\ h.origin.worktree = <<"work", "">>
  /\ h.calls = <<>>

\* an origin whose gitdir lies elsewhere has its worktree updated for each entry
RemoteWorktreeUpdated ==
  /\ h.pc = "done"
  /\ ~GitdirInsideWorktree
  /\ h.failing = "none"
  /\ Len(h.calls) = 6
  /\ \A i \in 1..6 : h.calls[i].call \in WorktreeUpdateCalls


(***************************************************************************)
(* C36  For an origin without a worktree, the directory the decision phase *)
(* clones into is the directory the population phase resolves for the      *)
(* entries of that origin (prefix <repo>@<refname>-, last match of the     *)
(* listing), for every ref name, those with a "/" included.                *)
(***************************************************************************)
OnClonePath(i) == h.cacheEntries[i].worktree = NoWorktree

ClonedFor(i) == h.cloned[h.cacheEntries[i].origin]

CloneIsWhatPopulationResolves ==
  \A i \in 1..Len(h.resolved) : OnClonePath(i) => h.resolved[i] = ClonedFor(i)

\* a ref name with a "/": the clone is there, and population finds no worktree
SlashRefNotResolved ==
  /\ Len(h.origins) = 1
  /\ h.origins[1].url = <<"https://host", "/", "repo", ".git">>
  /\ h.origins[1].worktree = "undefined"
  /\ h.origins[1].refname = <<"feature", "/", "x">>
  /\ h.names = {<<"repo", "@", "feature", "-", "x", "-", "1a">>}
  /\ Len(h.resolved) = 1
  /\ h.resolved[1] = NoWorktree

\* refs main and main-x of one repository: the entry of main is populated
\* from the worktree of main-x
OtherRefResolved ==
  /\ Len(h.resolved) = 2
  /\ OnClonePath(1) /\ OnClonePath(2)
  /\ h.origins[1].refname = <<"main">>
  /\ h.origins[2].refname = <<"main", "-", "x">>
  /\ h.resolved[1] = ClonedFor(2)
  /\ ClonedFor(1) # ClonedFor(2)

\* a lower-case repository name and a ref name without "/" or "-": resolved
PlainRefResolved ==
  /\ Len(h.origins) = 1
  /\ h.origins[1].refname = <<"main">>
  /\ Len(h.resolved) = 1
  /\ OnClonePath(1)
  /\ h.resolved[1] = ClonedFor(1)
  /\ h.resolved[1] = <<"repo", "@", "main", "-", "1a">>


(***************************************************************************)
(* C37  Every entry whose original build command is appended to the        *)
(* collector list during the decision phase is also recorded in the list   *)
(* of entries to populate after the build, the entry that fell back to     *)
(* "let it run" after a caught exception included.                         *)
(***************************************************************************)
OriginalAppended == PassThrough(CurrentEntry.run, CurrentEntry.scan) \in Range(Appended)

RecordedForPopulation ==
  \E j \in (Len(cacheEntries) + 1)..Len(cacheEntries') :
    /\ cacheEntries'[j].componentName = CurrentOrigin.name
    /\ cacheEntries'[j].key = CurrentEntry.run.key

ScheduledBuildIsRecorded ==
  [][(Deciding /\ OriginalAppended) => RecordedForPopulation]_vars

\* an entry that fell back after an exception is scheduled and not recorded
FallbackNotRecorded ==
  [][~(Deciding /\ DecidingThrows /\ OriginalAppended /\ cacheEntries' = cacheEntries)]_vars

\* outside the catch block a scheduled build is always recorded
ScheduledBuildIsRecordedUnlessCaught ==
  [][(Deciding /\ OriginalAppended /\ ~DecidingThrows) => RecordedForPopulation]_vars


(***************************************************************************)
(* C38  During the decision phase the collector list of an origin is       *)
(* append-only: the elements already in it stay in place, the evaluation   *)
(* of one entry appends at most one element (also when an exception is     *)
(* caught), and the appended elements are in the declaration order of      *)
(* their entries, which are evaluated one after another.                   *)
(***************************************************************************)
\* a step of the loop over the entries
EntryEvaluated == pc = "decide" /\ <<oi, ei, pc>>' # <<oi, ei, pc>>

\* the element belongs to the entry: its original run and scan, or the no-op
\* with one scan per scan of the entry
ElementOf(item, entry) ==
  \/ item = [run |-> entry.run, scan |-> entry.scan]
  \/ /\ item.run = NoopRun
     /\ HasScan(entry.scan)
     /\ Len(item.scan.items) = Len(entry.scan.items)

\* position of the entry with this key in the declaration of the origin
DeclaredAt(o, key) ==
  CHOOSE j \in 1..Len(o.cacheConfig.entries) : o.cacheConfig.entries[j].run.key = key

\* positions of the original commands in a collector list
Originals(i) == {k \in 1..Len(collector[i]) : \E j \in 1..Len(cfg[i].cacheConfig.entries) :
                                               collector[i][k].run = cfg[i].cacheConfig.entries[j].run}

InDeclarationOrder ==
  \A i \in 1..Len(cfg) : \A k, l \in Originals(i) :
    k < l => DeclaredAt(cfg[i], collector[i][k].run.key) < DeclaredAt(cfg[i], collector[i][l].run.key)

CollectorIsAppendOnly ==
  /\ [][pc = "decide" =>
          /\ \A i \in 1..Len(cfg) : IsPrefix(collector[i], collector'[i])
          /\ \A i \in 1..Len(cfg) : i # oi => collector'[i] = collector[i]
          /\ Len(Appended) <= 1
          /\ Appended # <<>> => EntryEvaluated /\ ElementOf(Appended[1], CurrentEntry)
          /\ EntryEvaluated => BatchContinues]_vars
  /\ [](pc \in {"decide", "build"} =>
          /\ InDeclarationOrder
          /\ \A i \in 1..Len(cfg) : IsPrefix(cfg[i].collector, collector[i]))

\* the decision phase is over: the entry of the site is still first, the
\* originals of gen and of main follow in that order
CollectorIsAppendOnlyWitness ==
  /\ pc = "build"
  /\ Len(collector[1]) = 3
  /\ collector[1][1] = HostItem
  /\ collector[1][2].run = cfg[1].cacheConfig.entries[1].run
  /\ collector[1][3].run = cfg[1].cacheConfig.entries[2].run
  /\ collector[1][2].run.key # collector[1][3].run.key

\* an exception was caught and the list of the origin grew by one
CaughtAppendsOne ==
  [][~(Deciding /\ DecidingThrows /\ Len(collector'[oi]) = Len(collector[oi]) + 1)]_vars


(***************************************************************************)
(* C39  A decision that runs while another process populates the same      *)
(* fingerprint yields HIT only when the stored output directory holds a    *)
(* complete copied output: no interleaving of the population steps with    *)
(* the pointer load and the existence check of the decision gives a HIT    *)
(* on a partially copied directory.                                        *)
(***************************************************************************)
\* the existence check of the decision runs and the decision is HIT
RaceHit == h.decider.pc = "check" /\ h'.decider.decision = "HIT"

\* what is stored is the whole output of some build
StoredIsComplete == \E b \in RaceBuilds : RaceStored = CompleteOutput(b)

\* a population is between its pointer write and the end of its copy
PopulationUnderWay == \E p \in Populators : h.procs[p].pc \notin {"pointer", "done", "failed"}

NoHitOnPartialCopy == [][RaceHit => StoredIsComplete]_vars

\* a HIT taken while a copy is under way and the directory is incomplete
HitOnPartialCopy == [][~(RaceHit /\ PopulationUnderWay /\ ~StoredIsComplete)]_vars

\* with every population ended in success or not started, a HIT is on a
\* complete output unless two copies have mixed
HitAfterPopulations ==
  [][(RaceHit /\ ~PopulationUnderWay /\ \A p \in Populators : h.procs[p].pc # "failed") =>
       (StoredIsComplete \/ \A p \in Populators : h.procs[p].pc = "done")]_vars


(***************************************************************************)
(* C40  The fingerprint depends on the source paths only through their     *)
(* lexicographic order: two path-to-digest maps whose digests, listed in   *)
(* the order of the sorted paths, form the same sequence have the same     *)
(* fingerprint, and (the digest being injective) maps whose sequences      *)
(* differ have different fingerprints.                                     *)
(***************************************************************************)
\* the digests of a map, listed by ascending path
DigestsInPathOrder(hashes) ==
  LET ks == Range(hashes.keys)
      byPath == CHOOSE s \in [1..Cardinality(ks) -> ks] :
                  \A i, j \in 1..Cardinality(ks) : i < j => Rank(s[i]) < Rank(s[j])
  IN [i \in 1..Cardinality(ks) |-> hashes.val[byPath[i]]]

\* the insertion orders of a set of paths
PathOrders(S) ==
  {s \in [1..Cardinality(S) -> S] : \A i, j \in 1..Cardinality(S) : i # j => s[i] # s[j]}

FileDigests == {computeHash(c) : c \in 1..MaxContent}

\* every path-to-digest map over the source paths, in every insertion order
DigestMaps ==
  UNION {{[keys |-> ks, val |-> v] : ks \in PathOrders(S), v \in [S -> FileDigests]} : S \in SUBSET SourceNames}

FingerprintFollowsSortedDigests ==
  h.pc = "fingerprinted" =>
    \A m \in DigestMaps :
      (DigestsInPathOrder(m) = DigestsInPathOrder(h.hashes)) <=> (computeContentHash(m) = h.contentHash)

\* two files with different digests, hashed in an order that is not sorted:
\* the map of the two files renamed within their order has the same
\* fingerprint, the map with the digests swapped has another
FingerprintFollowsSortedDigestsWitness ==
  /\ h.pc = "fingerprinted"
  /\ h.hashes.keys = <<"src/gen.c", "lib/helper.c">>
  /\ h.hashes.val["lib/helper.c"] # h.hashes.val["src/gen.c"]
  /\ LET renamed == [keys |-> <<"src/gen.c", "src/main.c">>,
                     val |-> [k \in {"src/gen.c", "src/main.c"} |->
                                IF k = "src/gen.c" THEN h.hashes.val["lib/helper.c"]
                                ELSE h.hashes.val["src/gen.c"]]]
         swapped == [keys |-> h.hashes.keys,
                     val |-> [k \in {"src/gen.c", "lib/helper.c"} |->
                                IF k = "src/gen.c" THEN h.hashes.val["lib/helper.c"]
                                ELSE h.hashes.val["src/gen.c"]]]
     IN /\ computeContentHash(renamed) = h.contentHash
        /\ computeContentHash(swapped) # h.contentHash

====
